---- MODULE Spec2Model ----
(***************************************************************************)
(* OAuth 2.1 authorization-code + PKCE subsystem of the Hevy MCP server    *)
(* (src/unnamed/part_002): the two in-memory stores, the periodic sweep,   *)
(* GET /authorize, POST /token and the bearer-token middleware.            *)
(*                                                                         *)
(* Every handler body runs to completion on the single-threaded event      *)
(* loop (handleToken is async but never awaits), so each handler is one    *)
(* atomic action.  Strings are TLA+ strings; a request parameter that is   *)
(* absent is the value Undefined.  Time is Date.now() in milliseconds,     *)
(* counted from the moment the module is loaded.                           *)
(***************************************************************************)
EXTENDS Integers, Sequences, FiniteSets, TLC

VARIABLES
    now,                 \* the clock, Date.now()
    authorizationCodes,  \* Map<string, AuthorizationSession>
    accessTokens,        \* Map<string, AccessToken>
    generated,           \* strings crypto.randomBytes handed out during the run
    issuedTokens,        \* history: token -> [code, issuedAt] of its exchange
    burned,              \* history: codes whose session a failed check deleted
    req,                 \* the last request handled
    res,                 \* the response it received
    logged               \* the audit-log calls that handler made

vars == <<now, authorizationCodes, accessTokens, generated,
          issuedTokens, burned, req, res, logged>>

stores == <<authorizationCodes, accessTokens>>
history == <<generated, issuedTokens, burned>>

-----------------------------------------------------------------------------
(* Bounds of the model *)

\* how many values the random source is asked for (codes and tokens together)
MaxRandom == 3

\* longest byte sequence the generator is applied to exhaustively
MaxBytes == 3

-----------------------------------------------------------------------------
(* Program constants *)

SessionTtlMs == 600000
SweepIntervalMs == 60000
ExpiresIn == 3600
CodeLength == 32
TokenLength == 48
BearerPrefixLength == 7

\* the instants at which the clock is observed: the start, the end of a
\* session's lifetime and the end of a token's lifetime, and the millisecond
\* after each
Times ==
    { base + offset :
        base \in {0, SessionTtlMs, ExpiresIn * 1000}, offset \in {0, 1} }

-----------------------------------------------------------------------------
(* JavaScript values *)

\* a parameter that was not supplied
Undefined == "<undefined>"

\* !x for a string-or-undefined x
Falsy(x) == x = Undefined \/ x = ""

\* x || d
OrElse(x, d) == IF Falsy(x) THEN d ELSE x

\* String.prototype.startsWith
StartsWith(s, prefix) ==
    /\ Len(s) >= Len(prefix)
    /\ SubSeq(s, 1, Len(prefix)) = prefix

\* String.prototype.substring(from) with a 0-based index
SubstringFrom(s, from) == SubSeq(s, from + 1, Len(s))

\* a map without one key: Map.prototype.delete (a no-op on an absent key)
MapDelete(m, k) == [x \in DOMAIN m \ {k} |-> m[x]]

\* MapSet that keeps the value of a key already present
MapSetIfAbsent(m, k, v) ==
    [x \in DOMAIN m \cup {k} |-> IF x \in DOMAIN m THEN m[x] ELSE v]

\* a map with one key set: Map.prototype.set (overwrites)
MapSet(m, k, v) == [x \in DOMAIN m \cup {k} |-> IF x = k THEN v ELSE m[x]]

-----------------------------------------------------------------------------
(* Configuration *)

\* baseUrl handed to handleAuthorize and validateBearerToken
BaseUrl == "https://mcp.example"

-----------------------------------------------------------------------------
(* Random token generator *)

RECURSIVE Repeat(_, _)
\* String.prototype.repeat
Repeat(s, n) == IF n <= 0 THEN "" ELSE s \o Repeat(s, n - 1)

\* number of characters of the unpadded base64url encoding of n bytes
Base64UrlLength(n) == (4 * n + 2) \div 3

\* crypto.randomBytes(n).toString('base64url') for the i-th draw from the
\* random source: a string over the URL-safe alphabet
RandomBytesBase64Url(i, n) == ToString(i) \o Repeat("A", Base64UrlLength(n) - 1)

\* generateRandomString(length): the values a call can return
GenerateRandomString(length) ==
    { SubSeq(RandomBytesBase64Url(i, length), 1, length) : i \in 1..MaxRandom }

\* the value the next call returns.  crypto.randomBytes is a cryptographically
\* secure source: a draw never repeats an earlier one.  Values are named by
\* the order in which they are drawn, so two runs that differ only in which
\* unused value a draw returned are one run here
FreshRandomString(length) ==
    LET i == Cardinality(generated) + 1 IN
    IF i <= MaxRandom THEN { SubSeq(RandomBytesBase64Url(i, length), 1, length) } ELSE {}

-----------------------------------------------------------------------------
(* PKCE verifier *)

\* crypto.createHash('sha256').update(v).digest('base64url'), symbolically:
\* an injective function whose value is never its argument
Sha256Base64Url(v) == "sha256:" \o v

\* verifyCodeChallenge treating every method other than S256 as plain
verifyCodeChallengePlainDefault(verifier, challenge, method) ==
    IF method = "S256" THEN Sha256Base64Url(verifier) = challenge
    ELSE verifier = challenge

\* verifyCodeChallenge(verifier, challenge, method)
verifyCodeChallenge(verifier, challenge, method) ==
    IF method = "S256" THEN Sha256Base64Url(verifier) = challenge
    ELSE IF method = "plain" THEN verifier = challenge
    ELSE FALSE

-----------------------------------------------------------------------------
(* Responses and log calls *)

\* no response: the step was not a request
NoResponse == [kind |-> "none"]

\* res.status(status).json({error, error_description})
JsonError(status, error, description) ==
    [kind |-> "json", status |-> status, wwwAuthenticate |-> Undefined,
     body |-> [error |-> error, error_description |-> description]]

\* the same after res.setHeader('WWW-Authenticate', value)
JsonErrorWithChallenge(status, error, description, value) ==
    [kind |-> "json", status |-> status, wwwAuthenticate |-> value,
     body |-> [error |-> error, error_description |-> description]]

\* res.json(body): status 200
JsonOk(body) ==
    [kind |-> "json", status |-> 200, wwwAuthenticate |-> Undefined, body |-> body]

\* res.redirect(url): status 302, url being redirect_uri with the query
\* parameters set on it
Redirect(uri, params) ==
    [kind |-> "redirect", status |-> 302, location |-> [uri |-> uri, params |-> params]]

\* next(): the protected handler runs
NextCalled == [kind |-> "next"]

\* logger.authFailure(reason, req.ip)
AuthFailure(reason) == [fn |-> "authFailure", reason |-> reason]

\* logger.authAttempt(true, req.ip, client_id)
AuthAttempt(clientId) == [fn |-> "authAttempt", success |-> TRUE, clientId |-> clientId]

-----------------------------------------------------------------------------
(* Initial state: the module has just been loaded *)

Init ==
    /\ now = 0
    /\ authorizationCodes = <<>>
    /\ accessTokens = <<>>
    /\ generated = {}
    /\ issuedTokens = <<>>
    /\ burned = {}
    /\ req = [op |-> "load"]
    /\ res = NoResponse
    /\ logged = <<>>

-----------------------------------------------------------------------------
(* GET /authorize *)

\* TrustedRedirectUri with the prefixes lacking their final slash
TrustedRedirectUriNoSlash(redirect_uri) ==
    \/ StartsWith(redirect_uri, "https://claude.ai")
    \/ StartsWith(redirect_uri, "https://claude.com")

\* the redirect_uri check of handleAuthorize
TrustedRedirectUri(redirect_uri) ==
    \/ StartsWith(redirect_uri, "https://claude.ai/")
    \/ StartsWith(redirect_uri, "https://claude.com/")

\* NewSession without the defaults of the optional parameters
NewSessionNoDefaults(q) ==
    [codeChallenge |-> q.code_challenge,
     codeChallengeMethod |-> q.code_challenge_method,
     redirectUri |-> q.redirect_uri,
     clientId |-> q.client_id,
     scope |-> q.scope,
     state |-> q.state,
     resource |-> q.resource,
     createdAt |-> now]

\* the session handleAuthorize stores for query q
NewSession(q) ==
    [codeChallenge |-> q.code_challenge,
     codeChallengeMethod |-> q.code_challenge_method,
     redirectUri |-> q.redirect_uri,
     clientId |-> q.client_id,
     scope |-> OrElse(q.scope, ""),
     state |-> OrElse(q.state, ""),
     resource |-> OrElse(q.resource, BaseUrl),
     createdAt |-> now]

\* the query parameters handleAuthorize sets on the redirect URL
RedirectParams(authCode, state) ==
    IF Falsy(state) THEN [code |-> authCode]
    ELSE [code |-> authCode, state |-> state]

\* AuthorizeRejection with the PKCE-method check ahead of the response-type
\* check
AuthorizeRejectionMethodFirst(q) ==
    IF \/ Falsy(q.client_id) \/ Falsy(q.redirect_uri) \/ Falsy(q.response_type)
       \/ Falsy(q.code_challenge) \/ Falsy(q.code_challenge_method)
    THEN JsonError(400, "invalid_request", "Missing required parameters")
    ELSE IF q.code_challenge_method # "S256"
    THEN JsonError(400, "invalid_request", "Only S256 code_challenge_method is supported")
    ELSE IF q.response_type # "code"
    THEN JsonError(400, "unsupported_response_type",
                   "Only authorization_code flow is supported")
    ELSE IF ~TrustedRedirectUri(q.redirect_uri)
    THEN JsonError(400, "invalid_request", "Invalid redirect_uri")
    ELSE NoResponse

\* AuthorizeRejection accepting the plain PKCE method as well
AuthorizeRejectionAllowsPlain(q) ==
    IF \/ Falsy(q.client_id) \/ Falsy(q.redirect_uri) \/ Falsy(q.response_type)
       \/ Falsy(q.code_challenge) \/ Falsy(q.code_challenge_method)
    THEN JsonError(400, "invalid_request", "Missing required parameters")
    ELSE IF q.response_type # "code"
    THEN JsonError(400, "unsupported_response_type",
                   "Only authorization_code flow is supported")
    ELSE IF q.code_challenge_method \notin {"S256", "plain"}
    THEN JsonError(400, "invalid_request", "Only S256 code_challenge_method is supported")
    ELSE IF ~TrustedRedirectUri(q.redirect_uri)
    THEN JsonError(400, "invalid_request", "Invalid redirect_uri")
    ELSE NoResponse

\* the 400 response of the first failing check of handleAuthorize, NoResponse
\* when every check passes
AuthorizeRejection(q) ==
    IF \/ Falsy(q.client_id) \/ Falsy(q.redirect_uri) \/ Falsy(q.response_type)
       \/ Falsy(q.code_challenge) \/ Falsy(q.code_challenge_method)
    THEN JsonError(400, "invalid_request", "Missing required parameters")
    ELSE IF q.response_type # "code"
    THEN JsonError(400, "unsupported_response_type",
                   "Only authorization_code flow is supported")
    ELSE IF q.code_challenge_method # "S256"
    THEN JsonError(400, "invalid_request", "Only S256 code_challenge_method is supported")
    ELSE IF ~TrustedRedirectUri(q.redirect_uri)
    THEN JsonError(400, "invalid_request", "Invalid redirect_uri")
    ELSE NoResponse

\* the handler returned by handleAuthorize(baseUrl, authToken), on query q,
\* generateRandomString(32) returning one of codes
handleAuthorizeDrawing(q, codes) ==
    /\ req' = q
    /\ logged' = <<>>
    /\ UNCHANGED <<now, accessTokens, issuedTokens, burned>>
    /\ IF AuthorizeRejection(q).kind # "none"
       THEN /\ res' = AuthorizeRejection(q)
            /\ UNCHANGED <<authorizationCodes, generated>>
       ELSE \E authCode \in codes :
            /\ generated' = generated \cup {authCode}
            /\ authorizationCodes' = MapSet(authorizationCodes, authCode, NewSession(q))
            /\ res' = Redirect(q.redirect_uri, RedirectParams(authCode, q.state))

\* the same handler, the generator never repeating itself
handleAuthorize(q) == handleAuthorizeDrawing(q, FreshRandomString(CodeLength))

-----------------------------------------------------------------------------
(* POST /token *)

\* the clock may advance between the two Date.now() reads of the token entry
ClockDrift == IF now + 1 \in Times THEN {0, 1} ELSE {0}

\* NewAccessToken honouring the resource field of the request body
NewAccessTokenRequestResource(accessToken, q, session, drift) ==
    [token |-> accessToken,
     clientId |-> q.client_id,
     scope |-> session.scope,
     resource |-> OrElse(q.resource, session.resource),
     expiresAt |-> now + ExpiresIn * 1000,
     createdAt |-> now + drift]

\* the AccessToken handleToken stores: expiresAt is read first, createdAt
\* second, drift milliseconds later
NewAccessToken(accessToken, q, session, drift) ==
    [token |-> accessToken,
     clientId |-> q.client_id,
     scope |-> session.scope,
     resource |-> session.resource,
     expiresAt |-> now + ExpiresIn * 1000,
     createdAt |-> now + drift]

\* the body of the 200 response: scope: session.scope || undefined is left
\* out of the JSON when undefined
TokenResponse(accessToken, session) ==
    IF Falsy(session.scope)
    THEN [access_token |-> accessToken, token_type |-> "Bearer", expires_in |-> ExpiresIn]
    ELSE [access_token |-> accessToken, token_type |-> "Bearer", expires_in |-> ExpiresIn,
          scope |-> session.scope]

\* TokenRejection with the session lookup ahead of the grant-type check
TokenRejectionLookupFirst(q) ==
    IF \/ Falsy(q.grant_type) \/ Falsy(q.code)
       \/ Falsy(q.code_verifier) \/ Falsy(q.client_id)
    THEN JsonError(400, "invalid_request", "Missing required parameters")
    ELSE IF q.code \notin DOMAIN authorizationCodes
    THEN JsonError(400, "invalid_grant", "Invalid or expired authorization code")
    ELSE IF q.grant_type # "authorization_code"
    THEN JsonError(400, "unsupported_grant_type",
                   "Only authorization_code grant is supported")
    ELSE NoResponse

\* the 400 response of the first failing early check of handleToken (required
\* fields, grant type, session lookup), NoResponse when all three pass
TokenRejection(q) ==
    IF \/ Falsy(q.grant_type) \/ Falsy(q.code)
       \/ Falsy(q.code_verifier) \/ Falsy(q.client_id)
    THEN JsonError(400, "invalid_request", "Missing required parameters")
    ELSE IF q.grant_type # "authorization_code"
    THEN JsonError(400, "unsupported_grant_type",
                   "Only authorization_code grant is supported")
    ELSE IF q.code \notin DOMAIN authorizationCodes
    THEN JsonError(400, "invalid_grant", "Invalid or expired authorization code")
    ELSE NoResponse

\* TokenRejectionLog without the audit call for an unknown code
TokenRejectionLogSilent(q) == <<>>

\* the audit-log calls of an early rejection: only the failed lookup is logged
TokenRejectionLog(q) ==
    IF TokenRejection(q).kind # "none" /\ TokenRejection(q).body.error = "invalid_grant"
    THEN <<AuthFailure("invalid_authorization_code")>>
    ELSE <<>>

\* BindingFailure without the client_id check
BindingFailureNoClientCheck(q, session) ==
    IF ~verifyCodeChallenge(q.code_verifier, session.codeChallenge,
                            session.codeChallengeMethod)
    THEN <<"invalid_code_verifier", "Invalid code_verifier">>
    ELSE IF ~Falsy(q.redirect_uri) /\ q.redirect_uri # session.redirectUri
    THEN <<"redirect_uri_mismatch", "redirect_uri mismatch">>
    ELSE <<>>

\* BindingFailure without the redirect_uri check
BindingFailureNoRedirectCheck(q, session) ==
    IF ~verifyCodeChallenge(q.code_verifier, session.codeChallenge,
                            session.codeChallengeMethod)
    THEN <<"invalid_code_verifier", "Invalid code_verifier">>
    ELSE IF q.client_id # session.clientId
    THEN <<"client_id_mismatch", "client_id mismatch">>
    ELSE <<>>

\* the first failing binding check of handleToken against the session found
\* (PKCE, client_id, redirect_uri): its audit reason and error description;
\* <<>> when all pass
BindingFailure(q, session) ==
    IF ~verifyCodeChallenge(q.code_verifier, session.codeChallenge,
                            session.codeChallengeMethod)
    THEN <<"invalid_code_verifier", "Invalid code_verifier">>
    ELSE IF q.client_id # session.clientId
    THEN <<"client_id_mismatch", "client_id mismatch">>
    ELSE IF ~Falsy(q.redirect_uri) /\ q.redirect_uri # session.redirectUri
    THEN <<"redirect_uri_mismatch", "redirect_uri mismatch">>
    ELSE <<>>

\* BurnCode without the delete: a failed check leaves the session in place
BurnCodeKept(code, reason, description) ==
    /\ logged' = <<AuthFailure(reason)>>
    /\ burned' = burned \cup {code}
    /\ res' = JsonError(400, "invalid_grant", description)
    /\ UNCHANGED <<now, authorizationCodes, accessTokens, generated, issuedTokens>>

\* BurnCode invalidating the session in place: its challenge is blanked
\* instead of the entry being deleted
BurnCodeBlanked(code, reason, description) ==
    /\ logged' = <<AuthFailure(reason)>>
    /\ authorizationCodes' = [authorizationCodes EXCEPT ![code].codeChallenge = ""]
    /\ burned' = burned \cup {code}
    /\ res' = JsonError(400, "invalid_grant", description)
    /\ UNCHANGED <<now, accessTokens, generated, issuedTokens>>

\* BurnCode clearing the session store: a failed check drops every pending
\* session, not only the one of the presented code
BurnCodeClear(code, reason, description) ==
    /\ logged' = <<AuthFailure(reason)>>
    /\ authorizationCodes' = <<>>
    /\ burned' = burned \cup {code}
    /\ res' = JsonError(400, "invalid_grant", description)
    /\ UNCHANGED <<now, accessTokens, generated, issuedTokens>>

\* a failed binding check: log, delete the session, 400 invalid_grant
BurnCode(code, reason, description) ==
    /\ logged' = <<AuthFailure(reason)>>
    /\ authorizationCodes' = MapDelete(authorizationCodes, code)
    /\ burned' = burned \cup {code}
    /\ res' = JsonError(400, "invalid_grant", description)
    /\ UNCHANGED <<now, accessTokens, generated, issuedTokens>>

\* ConsumeCode without the delete: the code stays exchangeable
ConsumeCodeKept(code) == authorizationCodes

\* the session store after a successful exchange: the code is deleted
ConsumeCode(code) == MapDelete(authorizationCodes, code)

\* the handler returned by handleToken(authToken), on body q
handleToken(q) ==
    /\ req' = q
    /\ IF TokenRejection(q).kind # "none"
       THEN /\ res' = TokenRejection(q)
            /\ logged' = TokenRejectionLog(q)
            /\ UNCHANGED <<now, authorizationCodes, accessTokens, history>>
       ELSE LET session == authorizationCodes[q.code] IN
            IF BindingFailure(q, session) # <<>>
            THEN BurnCode(q.code, BindingFailure(q, session)[1],
                          BindingFailure(q, session)[2])
            ELSE \E accessToken \in FreshRandomString(TokenLength), drift \in ClockDrift :
                 /\ authorizationCodes' = ConsumeCode(q.code)
                 /\ generated' = generated \cup {accessToken}
                 /\ accessTokens' = MapSet(accessTokens, accessToken,
                                           NewAccessToken(accessToken, q, session, drift))
                 /\ issuedTokens' = MapSet(issuedTokens, accessToken,
                                           [code |-> q.code, issuedAt |-> now])
                 /\ now' = now + drift
                 /\ logged' = <<AuthAttempt(q.client_id)>>
                 /\ res' = JsonOk(TokenResponse(accessToken, session))
                 /\ UNCHANGED burned

-----------------------------------------------------------------------------
(* Bearer-token middleware *)

\* the WWW-Authenticate value sent for a missing or malformed header
ResourceMetadataChallenge ==
    "Bearer resource_metadata=\"" \o BaseUrl
        \o "/.well-known/oauth-protected-resource\", scope=\"mcp\""

\* TokenExpired relying on the sweep: the middleware never checks the expiry
TokenExpiredNever(tokenData) == FALSE

\* TokenExpired with >= for >: a token is refused at the instant it expires
TokenExpiredEarly(tokenData) == now >= tokenData.expiresAt

\* the expiry check of validateBearerToken
TokenExpired(tokenData) == now > tokenData.expiresAt

\* validateBearerToken with a sliding expiry: a successful validation renews
\* the token's lifetime
validateBearerTokenSliding(q) ==
    /\ req' = q
    /\ UNCHANGED <<now, authorizationCodes, history>>
    /\ IF Falsy(q.authorization) \/ ~StartsWith(q.authorization, "Bearer ")
       THEN /\ res' = JsonErrorWithChallenge(401, "invalid_token",
                          "Missing or invalid Authorization header",
                          ResourceMetadataChallenge)
            /\ logged' = <<>>
            /\ UNCHANGED accessTokens
       ELSE LET token == SubstringFrom(q.authorization, BearerPrefixLength) IN
            IF token \notin DOMAIN accessTokens
            THEN /\ res' = JsonError(401, "invalid_token",
                                     "Invalid or expired access token")
                 /\ logged' = <<AuthFailure("invalid_access_token")>>
                 /\ UNCHANGED accessTokens
            ELSE IF TokenExpired(accessTokens[token])
            THEN /\ accessTokens' = MapDelete(accessTokens, token)
                 /\ res' = JsonError(401, "invalid_token", "Token has expired")
                 /\ logged' = <<AuthFailure("expired_access_token")>>
            ELSE /\ res' = NextCalled
                 /\ logged' = <<>>
                 /\ accessTokens' =
                        [accessTokens EXCEPT ![token].expiresAt = now + ExpiresIn * 1000]

\* the middleware returned by validateBearerToken(baseUrl), on a request whose
\* Authorization header is q.authorization
validateBearerToken(q) ==
    /\ req' = q
    /\ UNCHANGED <<now, authorizationCodes, history>>
    /\ IF Falsy(q.authorization) \/ ~StartsWith(q.authorization, "Bearer ")
       THEN /\ res' = JsonErrorWithChallenge(401, "invalid_token",
                          "Missing or invalid Authorization header",
                          ResourceMetadataChallenge)
            /\ logged' = <<>>
            /\ UNCHANGED accessTokens
       ELSE LET token == SubstringFrom(q.authorization, BearerPrefixLength) IN
            IF token \notin DOMAIN accessTokens
            THEN /\ res' = JsonError(401, "invalid_token",
                                     "Invalid or expired access token")
                 /\ logged' = <<AuthFailure("invalid_access_token")>>
                 /\ UNCHANGED accessTokens
            ELSE IF TokenExpired(accessTokens[token])
            THEN /\ accessTokens' = MapDelete(accessTokens, token)
                 /\ res' = JsonError(401, "invalid_token", "Token has expired")
                 /\ logged' = <<AuthFailure("expired_access_token")>>
            ELSE /\ res' = NextCalled
                 /\ logged' = <<>>
                 /\ UNCHANGED accessTokens

-----------------------------------------------------------------------------
(* The periodic sweep and the clock *)

\* Sweep with >= for >: entries are removed at the instant they expire
SweepAtExpiry ==
    /\ authorizationCodes' =
           [code \in {c \in DOMAIN authorizationCodes :
                        ~(now - authorizationCodes[c].createdAt >= SessionTtlMs)}
               |-> authorizationCodes[code]]
    /\ accessTokens' =
           [token \in {t \in DOMAIN accessTokens : ~(now >= accessTokens[t].expiresAt)}
               |-> accessTokens[token]]
    /\ req' = [op |-> "sweep"]
    /\ res' = NoResponse
    /\ logged' = <<>>
    /\ UNCHANGED <<now, history>>

\* the setInterval callback.  It is due every SweepIntervalMs; when it runs
\* relative to the requests is not constrained here (the timer's phase is
\* arbitrary and the event loop may run it late)
Sweep ==
    /\ authorizationCodes' =
           [code \in {c \in DOMAIN authorizationCodes :
                        ~(now - authorizationCodes[c].createdAt > SessionTtlMs)}
               |-> authorizationCodes[code]]
    /\ accessTokens' =
           [token \in {t \in DOMAIN accessTokens : ~(now > accessTokens[t].expiresAt)}
               |-> accessTokens[token]]
    /\ req' = [op |-> "sweep"]
    /\ res' = NoResponse
    /\ logged' = <<>>
    /\ UNCHANGED <<now, history>>

\* time passes: the clock moves to a later instant
Tick ==
    /\ \E t \in Times : t > now /\ now' = t
    /\ req' = [op |-> "tick"]
    /\ res' = NoResponse
    /\ logged' = <<>>
    /\ UNCHANGED <<stores, history>>

-----------------------------------------------------------------------------
(* Requests *)

\* PKCE code verifiers clients hold
Verifiers == {"V1", "V2"}

\* GET /authorize query strings
AuthorizeQuery(client_id, redirect_uri, response_type, code_challenge, code_challenge_method, state, scope, resource) ==
    [op |-> "authorize", client_id |-> client_id, redirect_uri |-> redirect_uri,
     response_type |-> response_type, code_challenge |-> code_challenge,
     code_challenge_method |-> code_challenge_method, state |-> state,
     scope |-> scope, resource |-> resource]

\* the values tried for each query parameter
ClientIdValues == {"abc", "evil", Undefined}
RedirectUriValues ==
    {"https://claude.ai/cb", "https://claude.com/cb", "https://evil.example/cb",
     "https://claude.ai.evil.example/cb", "https://claude.ai", "http://claude.ai/cb",
     Undefined}
ResponseTypeValues == {"code", "token", Undefined}
CodeChallengeValues == {Sha256Base64Url("V1"), ""}
CodeChallengeMethodValues == {"S256", "plain", Undefined}
StateValues == {Undefined, "xyz", ""}
ScopeValues == {Undefined, "mcp", ""}
ResourceValues == {Undefined, "https://other.example/mcp"}

\* every combination of the five required parameters, without the optional
\* ones, and every combination of the optional ones on a well-formed query
AllAuthorizeQueries ==
    { AuthorizeQuery(c, u, t, h, m, Undefined, Undefined, Undefined) :
        c \in ClientIdValues, u \in RedirectUriValues, t \in ResponseTypeValues,
        h \in CodeChallengeValues, m \in CodeChallengeMethodValues }
    \cup { AuthorizeQuery("abc", u, "code", Sha256Base64Url("V1"), "S256", st, sc, rs) :
             u \in {"https://claude.ai/cb", "https://claude.com/cb"},
             st \in StateValues, sc \in ScopeValues, rs \in ResourceValues }

\* POST /token bodies
TokenBody(grant_type, code, code_verifier, client_id, redirect_uri, resource) ==
    [op |-> "token", grant_type |-> grant_type, code |-> code,
     code_verifier |-> code_verifier, client_id |-> client_id,
     redirect_uri |-> redirect_uri, resource |-> resource]

GrantTypeValues == {"authorization_code", "refresh_token", Undefined}
CodeValues == GenerateRandomString(CodeLength) \cup {"garbage", Undefined}
CodeVerifierValues == {"V1", "V2", Undefined}
TokenRedirectUriValues ==
    {Undefined, "", "https://claude.ai/cb", "https://claude.com/cb"}

\* every combination of the four required fields, without the optional ones,
\* and every combination of the optional ones on a well-formed body
AllTokenBodies ==
    { TokenBody(g, c, v, id, Undefined, Undefined) :
        g \in GrantTypeValues, c \in CodeValues, v \in CodeVerifierValues,
        id \in ClientIdValues }
    \cup { TokenBody("authorization_code", c, "V1", "abc", u, rs) :
             c \in GenerateRandomString(CodeLength), u \in TokenRedirectUriValues,
             rs \in ResourceValues }

\* requests to a protected route, by their Authorization header: every token
\* the generator can produce, whole, truncated, without the scheme and with
\* the scheme misspelt, and no header at all
BearerRequests ==
    { [op |-> "bearer", authorization |-> h] :
        h \in { "Bearer " \o t : t \in GenerateRandomString(TokenLength) }
              \cup { "Bearer " \o SubSeq(t, 1, TokenLength - 1) :
                        t \in GenerateRandomString(TokenLength) }
              \cup { "bearer " \o t : t \in GenerateRandomString(TokenLength) }
              \cup GenerateRandomString(TokenLength)
              \cup { "Bearer ", "", Undefined } }

\* the requests of the lifecycle specification: a well-formed authorization
\* and a rejected one; exchanges of every code the generator can produce, by
\* the right and the wrong client, with the right and the wrong verifier, with
\* and without redirect_uri, and ill-formed ones
AuthorizeRequests ==
    { AuthorizeQuery("abc", u, "code", Sha256Base64Url("V1"), "S256",
                     Undefined, Undefined, Undefined) :
        u \in {"https://claude.ai/cb", "https://evil.example/cb"} }
TokenRequests ==
    { TokenBody("authorization_code", c, v, id, Undefined, Undefined) :
        c \in GenerateRandomString(CodeLength), v \in Verifiers, id \in {"abc", "evil"} }
    \cup { TokenBody(g, c, v, "abc", u, Undefined) :
             g \in {"authorization_code", "refresh_token"},
             c \in GenerateRandomString(CodeLength), v \in {"V1", Undefined},
             u \in {"https://claude.ai/cb", "https://claude.com/cb"} }

-----------------------------------------------------------------------------
(* The system *)

Next ==
    \/ \E q \in AuthorizeRequests : handleAuthorize(q)
    \/ \E q \in TokenRequests : handleToken(q)
    \/ \E q \in BearerRequests : validateBearerToken(q)
    \/ Sweep
    \/ Tick

Spec == Init /\ [][Next]_vars

\* The request specification: the server is loaded at any instant and
\* handles the /authorize and /token requests of the lifecycle specification,
\* the clock standing still; at any point one request drawn from the full
\* sets above is handled, and ends the run.
InitRequests ==
    /\ now \in Times
    /\ authorizationCodes = <<>>
    /\ accessTokens = <<>>
    /\ generated = {}
    /\ issuedTokens = <<>>
    /\ burned = {}
    /\ req = [op |-> "load"]
    /\ res = NoResponse
    /\ logged = <<>>

\* no request of the full sets has been handled yet
Unprobed ==
    req \in {[op |-> "load"]} \cup AuthorizeRequests \cup TokenRequests

NextRequests ==
    /\ Unprobed
    /\ \/ \E q \in AuthorizeRequests : handleAuthorize(q)
       \/ \E q \in TokenRequests : handleToken(q)
       \/ \E q \in AllAuthorizeQueries : handleAuthorize(q)
       \/ \E q \in AllTokenBodies : handleToken(q)

SpecRequests == InitRequests /\ [][NextRequests]_vars

\* The exchange specification: the server has been running since instant 0,
\* when it issued a token that is still in the store; at any later instant it
\* handles authorizations with and without scope and resource, and exchanges
\* with and without redirect_uri and resource, the clock moving only while
\* handleToken runs.
EarlierToken == SubSeq(RandomBytesBase64Url(0, TokenLength), 1, TokenLength)

InitExchange ==
    /\ now \in Times
    /\ authorizationCodes = <<>>
    /\ accessTokens =
           [t \in {EarlierToken} |->
               [token |-> t, clientId |-> "abc", scope |-> "", resource |-> BaseUrl,
                expiresAt |-> ExpiresIn * 1000, createdAt |-> 0]]
    /\ generated = {}
    /\ issuedTokens = <<>>
    /\ burned = {}
    /\ req = [op |-> "load"]
    /\ res = NoResponse
    /\ logged = <<>>

ExchangeAuthorizeRequests ==
    { AuthorizeQuery("abc", "https://claude.ai/cb", "code", Sha256Base64Url("V1"),
                     "S256", Undefined, sc, rs) :
        sc \in ScopeValues, rs \in ResourceValues }

ExchangeTokenRequests ==
    { TokenBody("authorization_code", c, "V1", "abc", u, rs) :
        c \in GenerateRandomString(CodeLength),
        u \in {Undefined, "https://claude.ai/cb"}, rs \in ResourceValues }

NextExchange ==
    \/ \E q \in ExchangeAuthorizeRequests : handleAuthorize(q)
    \/ \E q \in ExchangeTokenRequests : handleToken(q)

SpecExchange == InitExchange /\ [][NextExchange]_vars

\* The collision specification: generateRandomString may return any value
\* of its range for an authorization code, one it returned before included
\* (handleAuthorize does not look the code up before storing under it).  The
\* server handles authorizations with and without scope, and the rightful
\* client's exchanges.
CollisionAuthorizeRequests ==
    { AuthorizeQuery("abc", "https://claude.ai/cb", "code", Sha256Base64Url("V1"),
                     "S256", Undefined, sc, Undefined) :
        sc \in {Undefined, "mcp"} }

CollisionTokenRequests ==
    { TokenBody("authorization_code", c, "V1", "abc", Undefined, Undefined) :
        c \in GenerateRandomString(CodeLength) }

NextCollision ==
    \/ \E q \in CollisionAuthorizeRequests :
          handleAuthorizeDrawing(q, GenerateRandomString(CodeLength))
    \/ \E q \in CollisionTokenRequests : handleToken(q)

SpecCollision == Init /\ [][NextCollision]_vars

\* The PKCE specification: verifyCodeChallenge is applied to verifiers,
\* challenges and methods drawn from the sets below, in a server whose token
\* store is not empty.
PkceVerifiers == {"V1", "V2", "", Sha256Base64Url("V1")}
PkceChallenges ==
    { Sha256Base64Url(v) : v \in PkceVerifiers } \cup {"V1", "V2", "", "sha256:"}
PkceMethods == {"S256", "plain", "s256", "S512", "", Undefined}

\* one call verifyCodeChallenge(verifier, challenge, method)
CallVerifyCodeChallenge(verifier, challenge, method) ==
    /\ req' = [op |-> "verify", verifier |-> verifier, challenge |-> challenge,
               method |-> method]
    /\ res' = [kind |-> "value",
               value |-> verifyCodeChallenge(verifier, challenge, method)]
    /\ UNCHANGED <<now, stores, history, logged>>

NextPkce ==
    \E v \in PkceVerifiers, c \in PkceChallenges, m \in PkceMethods :
        CallVerifyCodeChallenge(v, c, m)

SpecPkce == InitExchange /\ [][NextPkce]_vars

-----------------------------------------------------------------------------
(* Internal faults: a statement of a handler body throws *)

\* a fault that no catch block handles: the handler sends no response
UncaughtError == NoResponse

\* the response of the catch block of each handler
ServerError == JsonError(500, "server_error", "Internal server error")

\* the request record of a handler run that a fault interrupted
Faulted(q, point) == [op |-> "fault", request |-> q, point |-> point]

\* handleAuthorize on query q, a statement throwing: before the session is
\* stored (a parameter that is not a string, say), or after it is stored and
\* before the redirect is sent
handleAuthorizeFault(q) ==
    /\ res' = ServerError
    /\ logged' = <<>>
    /\ UNCHANGED <<now, accessTokens, issuedTokens, burned>>
    /\ \/ /\ req' = Faulted(q, "before set")
          /\ UNCHANGED <<authorizationCodes, generated>>
       \/ /\ AuthorizeRejection(q).kind = "none"
          /\ req' = Faulted(q, "after set")
          /\ \E authCode \in FreshRandomString(CodeLength) :
               /\ generated' = generated \cup {authCode}
               /\ authorizationCodes' =
                      MapSet(authorizationCodes, authCode, NewSession(q))

\* handleToken on body q, a statement throwing: before anything is changed
\* (req.body undefined, or a verifier that is not a string), after a failed
\* binding check has deleted the code and before the 400 is sent, after the
\* code is deleted and before the token is stored, or after the token is
\* stored and before the response is sent
handleTokenFault(q) ==
    /\ res' = ServerError
    /\ now' = now
    /\ \/ /\ req' = Faulted(q, "before delete")
          /\ logged' = <<>>
          /\ UNCHANGED <<authorizationCodes, accessTokens, history>>
       \/ /\ TokenRejection(q).kind = "none"
          /\ BindingFailure(q, authorizationCodes[q.code]) # <<>>
          /\ req' = Faulted(q, "after burn")
          /\ logged' = <<AuthFailure(BindingFailure(q, authorizationCodes[q.code])[1])>>
          /\ authorizationCodes' = MapDelete(authorizationCodes, q.code)
          /\ burned' = burned \cup {q.code}
          /\ UNCHANGED <<accessTokens, generated, issuedTokens>>
       \/ /\ TokenRejection(q).kind = "none"
          /\ BindingFailure(q, authorizationCodes[q.code]) = <<>>
          /\ req' = Faulted(q, "after delete")
          /\ logged' = <<>>
          /\ authorizationCodes' = ConsumeCode(q.code)
          /\ UNCHANGED <<accessTokens, history>>
       \/ /\ TokenRejection(q).kind = "none"
          /\ BindingFailure(q, authorizationCodes[q.code]) = <<>>
          /\ req' = Faulted(q, "after set")
          /\ logged' = <<AuthAttempt(q.client_id)>>
          /\ authorizationCodes' = ConsumeCode(q.code)
          /\ burned' = burned
          /\ \E accessToken \in FreshRandomString(TokenLength) :
               /\ generated' = generated \cup {accessToken}
               /\ accessTokens' =
                      MapSet(accessTokens, accessToken,
                             NewAccessToken(accessToken, q,
                                            authorizationCodes[q.code], 0))
               /\ issuedTokens' = MapSet(issuedTokens, accessToken,
                                         [code |-> q.code, issuedAt |-> now])

\* validateBearerToken on request q, a statement throwing: before anything
\* is changed, or after an expired token is deleted and before the 401 is
\* sent
validateBearerTokenFault(q) ==
    /\ res' = ServerError
    /\ UNCHANGED <<now, authorizationCodes, history>>
    /\ \/ /\ req' = Faulted(q, "before delete")
          /\ logged' = <<>>
          /\ UNCHANGED accessTokens
       \/ /\ ~Falsy(q.authorization)
          /\ StartsWith(q.authorization, "Bearer ")
          /\ LET token == SubstringFrom(q.authorization, BearerPrefixLength) IN
             /\ token \in DOMAIN accessTokens
             /\ TokenExpired(accessTokens[token])
             /\ accessTokens' = MapDelete(accessTokens, token)
          /\ req' = Faulted(q, "after delete")
          /\ logged' = <<>>

\* requests of the fault specification
FaultTokenRequests ==
    { TokenBody("authorization_code", c, v, "abc", Undefined, Undefined) :
        c \in GenerateRandomString(CodeLength), v \in Verifiers }
FaultBearerRequests ==
    { [op |-> "bearer", authorization |-> h] :
        h \in { "Bearer " \o t : t \in GenerateRandomString(TokenLength) }
              \cup { Undefined } }

\* The fault specification: every handler run either completes or is
\* interrupted by a fault.
NextFaults ==
    \/ \E q \in AuthorizeRequests : handleAuthorize(q)
    \/ \E q \in FaultTokenRequests : handleToken(q)
    \/ \E q \in FaultBearerRequests : validateBearerToken(q)
    \/ \E q \in AuthorizeRequests : handleAuthorizeFault(q)
    \/ \E q \in FaultTokenRequests : handleTokenFault(q)
    \/ \E q \in FaultBearerRequests : validateBearerTokenFault(q)
    \/ Tick

SpecFaults == Init /\ [][NextFaults]_vars

-----------------------------------------------------------------------------
(* Metadata endpoints *)

\* authServerUrl handed to handleProtectedResourceMetadata
AuthServerUrl == "https://mcp.example"

\* the document of GET /.well-known/oauth-protected-resource
ProtectedResourceMetadata ==
    [resource |-> BaseUrl,
     authorization_servers |-> <<AuthServerUrl>>,
     scopes_supported |-> <<"mcp">>,
     bearer_methods_supported |-> <<"header">>]

\* the authorization-server document advertising the plain PKCE method too
AuthorizationServerMetadataWithPlain ==
    [issuer |-> BaseUrl,
     authorization_endpoint |-> BaseUrl \o "/authorize",
     token_endpoint |-> BaseUrl \o "/token",
     code_challenge_methods_supported |-> <<"S256", "plain">>,
     grant_types_supported |-> <<"authorization_code">>,
     response_types_supported |-> <<"code">>,
     scopes_supported |-> <<"mcp", "claudeai">>,
     token_endpoint_auth_methods_supported |-> <<"none">>,
     client_id_metadata_document_supported |-> FALSE]

\* the document of GET /.well-known/oauth-authorization-server
AuthorizationServerMetadata ==
    [issuer |-> BaseUrl,
     authorization_endpoint |-> BaseUrl \o "/authorize",
     token_endpoint |-> BaseUrl \o "/token",
     code_challenge_methods_supported |-> <<"S256">>,
     grant_types_supported |-> <<"authorization_code">>,
     response_types_supported |-> <<"code">>,
     scopes_supported |-> <<"mcp", "claudeai">>,
     token_endpoint_auth_methods_supported |-> <<"none">>,
     client_id_metadata_document_supported |-> FALSE]

\* the handler returned by handleProtectedResourceMetadata
handleProtectedResourceMetadata ==
    /\ req' = [op |-> "metadata", document |-> "oauth-protected-resource"]
    /\ res' = JsonOk(ProtectedResourceMetadata)
    /\ logged' = <<>>
    /\ UNCHANGED <<now, stores, history>>

\* the handler returned by handleAuthorizationServerMetadata
handleAuthorizationServerMetadata ==
    /\ req' = [op |-> "metadata", document |-> "oauth-authorization-server"]
    /\ res' = JsonOk(AuthorizationServerMetadata)
    /\ logged' = <<>>
    /\ UNCHANGED <<now, stores, history>>

\* The metadata specification: the request specification, each metadata
\* document being fetched as well, at any point of a run.
NextMetadata ==
    \/ NextRequests
    \/ Unprobed /\ handleProtectedResourceMetadata
    \/ Unprobed /\ handleAuthorizationServerMetadata

SpecMetadata == InitRequests /\ [][NextMetadata]_vars

-----------------------------------------------------------------------------
(* The generator on the bytes the random source returns *)

\* the URL-safe base64 alphabet
Base64UrlAlphabet ==
    "ABCDEFGHIJKLMNOPQRSTUVWXYZabcdefghijklmnopqrstuvwxyz0123456789-_"

\* the character of the 6-bit value v
Base64UrlChar(v) == SubSeq(Base64UrlAlphabet, v + 1, v + 1)

RECURSIVE Base64UrlEncode(_)
\* Buffer.toString('base64url'): three bytes give four characters, a last
\* group of one byte gives two and of two bytes three, without padding
Base64UrlEncode(bytes) ==
    IF Len(bytes) = 0 THEN ""
    ELSE IF Len(bytes) = 1
    THEN Base64UrlChar(bytes[1] \div 4) \o Base64UrlChar((bytes[1] % 4) * 16)
    ELSE IF Len(bytes) = 2
    THEN Base64UrlChar(bytes[1] \div 4)
            \o Base64UrlChar((bytes[1] % 4) * 16 + bytes[2] \div 16)
            \o Base64UrlChar((bytes[2] % 16) * 4)
    ELSE Base64UrlChar(bytes[1] \div 4)
            \o Base64UrlChar((bytes[1] % 4) * 16 + bytes[2] \div 16)
            \o Base64UrlChar((bytes[2] % 16) * 4 + bytes[3] \div 64)
            \o Base64UrlChar(bytes[3] % 64)
            \o Base64UrlEncode(SubSeq(bytes, 4, Len(bytes)))

\* generateRandomString keeping the whole encoding
generateRandomStringWhole(bytes) == Base64UrlEncode(bytes)

\* generateRandomString(length), crypto.randomBytes(length) returning bytes
generateRandomStringOf(bytes) ==
    SubSeq(Base64UrlEncode(bytes), 1, Len(bytes))

\* values of a random byte, chosen to differ in high and in low bits
ByteValues == {0, 1, 16, 64, 255}

\* every byte sequence of up to MaxBytes bytes
ShortRandomBytes == UNION { [1..n -> ByteValues] : n \in 1..MaxBytes }

\* byte sequences of the two call sites: all zero but for one byte
CallSiteRandomBytes ==
    { [i \in 1..n |-> IF i = k THEN b ELSE 0] :
        n \in {CodeLength, TokenLength}, k \in 1..TokenLength, b \in ByteValues }

RandomBytes == ShortRandomBytes \cup CallSiteRandomBytes

\* one call of generateRandomString, the random source returning bytes
CallGenerateRandomString(bytes) ==
    /\ req.op # "generate"
    /\ req' = [op |-> "generate", bytes |-> bytes]
    /\ res' = [kind |-> "value", value |-> generateRandomStringOf(bytes)]
    /\ UNCHANGED <<now, stores, history, logged>>

\* The generator specification: generateRandomString is called once, on any
\* of the byte sequences above.
NextGenerate == \E bytes \in RandomBytes : CallGenerateRandomString(bytes)

SpecGenerate == Init /\ [][NextGenerate]_vars

-----------------------------------------------------------------------------
(* The MCP server: tool list and tool dispatch *)

\* null, the result of a module for a tool it does not handle
Null == [kind |-> "null"]

\* the elements of sequence s
Elements(s) == { s[i] : i \in DOMAIN s }

\* the four Hevy tool modules, in the order createHevyMCPServer tries them
HevyModules == <<"workouts", "routines", "exercises", "folders">>

\* The Hevy modules are not among the sources at hand.  Each is taken to
\* list any tools of the Hevy namespace and to handle the tools it lists.
HevyToolListValues ==
    {<<>>, <<"hevy_tool_a">>, <<"hevy_tool_b">>, <<"hevy_tool_a", "hevy_tool_b">>}

\* every behaviour of the four Hevy modules
HevyModuleValues == [Elements(HevyModules) -> HevyToolListValues]

\* the result of a tool: one text content, and isError: true on failure
ToolResult(text, failed) ==
    IF failed
    THEN [content |-> <<[type |-> "text", text |-> text]>>, isError |-> TRUE]
    ELSE [content |-> <<[type |-> "text", text |-> text]>>]

\* handleWorkoutToolCall, handleRoutineToolCall, handleExerciseToolCall and
\* handleFolderToolCall: the result of module m listing tools, or null
handleHevyToolCall(m, tools, name, failed) ==
    IF name \in Elements(tools)
    THEN ToolResult(IF failed THEN "<error of " \o m \o ">"
                              ELSE "<" \o m \o ": " \o name \o ">", failed)
    ELSE Null

\* the names of the tools getHATools returns
getHATools ==
    <<"ha_get_states", "ha_get_state", "ha_set_state", "ha_call_service",
      "ha_get_services", "ha_get_history">>

\* the case labels of the switch of handleHAToolCall
HAToolCases ==
    {"ha_get_states", "ha_get_state", "ha_set_state", "ha_call_service",
     "ha_get_services", "ha_get_history"}

\* handleHAToolCall: a case of the switch returns the JSON of what Home
\* Assistant answered, or, when its argument check or the request throws, the
\* error text with isError; any other name returns null
handleHAToolCall(name, failed) ==
    IF name \in HAToolCases
    THEN ToolResult(IF failed THEN "<error of ha>" ELSE "<ha: " \o name \o ">", failed)
    ELSE Null

\* haClient created whenever a base URL is configured
HaClientWithoutToken(config) == ~Falsy(config.haBaseUrl)

\* whether createHevyMCPServer creates haClient
HaClient(config) == ~Falsy(config.haBaseUrl) /\ ~Falsy(config.haToken)

\* allTools of createHevyMCPServer
AllTools(config, modules) ==
    modules["workouts"] \o modules["routines"] \o modules["exercises"]
        \o modules["folders"] \o (IF HaClient(config) THEN getHATools ELSE <<>>)

\* the server createHevyMCPServer returns
Server(config, modules) ==
    [config |-> config, modules |-> modules,
     haClient |-> HaClient(config), allTools |-> AllTools(config, modules)]

\* the result when no module handles the tool
UnknownTool(name) == ToolResult("Unknown tool: " \o name, TRUE)

RECURSIVE FirstHevyResult(_, _, _, _)
\* the first result that is not null of the Hevy modules from the i-th on
FirstHevyResult(i, modules, name, failed) ==
    IF i > Len(HevyModules) THEN Null
    ELSE LET result == handleHevyToolCall(HevyModules[i], modules[HevyModules[i]],
                                          name, failed)
         IN IF result # Null THEN result
            ELSE FirstHevyResult(i + 1, modules, name, failed)

\* the CallToolRequestSchema handler of server
CallToolResult(server, name, failed) ==
    LET result == FirstHevyResult(1, server.modules, name, failed) IN
    IF result # Null THEN result
    ELSE IF server.haClient /\ handleHAToolCall(name, failed) # Null
    THEN handleHAToolCall(name, failed)
    ELSE UnknownTool(name)

\* configurations
ApiKeyValues == {"hevy-key", Undefined}
HaBaseUrlValues == {Undefined, "", "http://ha.local:8123"}
HaTokenValues == {Undefined, "", "ha-token"}
ServerConfigs ==
    [apiKey : ApiKeyValues, haBaseUrl : HaBaseUrlValues, haToken : HaTokenValues]

\* tool names a client calls
ToolNames ==
    Elements(getHATools) \cup {"ha_restart", "hevy_tool_a", "hevy_tool_b", "get_weather"}

\* createHevyMCPServer(config)
createHevyMCPServer(config, modules) ==
    /\ req.op = "load"
    /\ req' = [op |-> "createHevyMCPServer",
               server |-> IF Falsy(config.apiKey) THEN Null ELSE Server(config, modules)]
    /\ res' = IF Falsy(config.apiKey)
              THEN [kind |-> "throw", error |-> "ConfigurationError",
                    message |-> "HEVY_API_KEY is required"]
              ELSE [kind |-> "value"]
    /\ UNCHANGED <<now, stores, history, logged>>

\* a server has been created
Serving == req.op # "load" /\ req.server # Null

\* the ListToolsRequestSchema handler
ListTools ==
    /\ Serving
    /\ req' = [op |-> "tools/list", server |-> req.server]
    /\ res' = [kind |-> "value", tools |-> req.server.allTools]
    /\ UNCHANGED <<now, stores, history, logged>>

\* the CallToolRequestSchema handler, the module handling the tool failing
\* or not
CallTool(name, failed) ==
    /\ Serving
    /\ req' = [op |-> "tools/call", server |-> req.server, name |-> name]
    /\ res' = [kind |-> "value", result |-> CallToolResult(req.server, name, failed)]
    /\ UNCHANGED <<now, stores, history, logged>>

\* The tool specification: a server is created from any configuration, then
\* lists its tools and handles tool calls.
NextTools ==
    \/ \E config \in ServerConfigs, modules \in HevyModuleValues :
          createHevyMCPServer(config, modules)
    \/ ListTools
    \/ \E name \in ToolNames, failed \in BOOLEAN : CallTool(name, failed)

SpecTools == Init /\ [][NextTools]_vars

-----------------------------------------------------------------------------
(* ha_get_history *)

\* the booleans of JavaScript
False == "<false>"
True == "<true>"

\* x is truthy: the test of  if (x)
Truthy(x) == x \notin {Undefined, "", False}

\* obj.key, undefined when obj has no such key
Get(obj, key) == IF key \in DOMAIN obj THEN obj[key] ELSE Undefined

\* the parameters handleHAToolCall hands to getHistory: the four arguments
\* destructured from request.params.arguments || {}
HistoryParams(arguments) ==
    [entity_id |-> Get(arguments, "entity_id"),
     start_time |-> Get(arguments, "start_time"),
     end_time |-> Get(arguments, "end_time"),
     minimal_response |-> Get(arguments, "minimal_response")]

\* queryParams of getHistory: the pairs appended, in order
HistoryQueryParams(params) ==
    (IF Truthy(params.start_time)
     THEN << <<"filter_entity_id", OrElse(params.entity_id, "")>> >> ELSE <<>>)
    \o (IF Truthy(params.end_time)
        THEN << <<"end_time", params.end_time>> >> ELSE <<>>)
    \o (IF Truthy(params.minimal_response)
        THEN << <<"minimal_response", "true">> >> ELSE <<>>)

\* the endpoint getHistory requests: its path and its query
HistoryEndpoint(params) ==
    [path |-> IF Truthy(params.start_time)
              THEN "/api/history/period/" \o params.start_time
              ELSE "/api/history/period",
     query |-> HistoryQueryParams(params)]

\* argument objects of a ha_get_history call: each argument absent or set
HistoryArgumentValues ==
    [entity_id : {"sensor.temp", "light.kitchen"},
     start_time : {"", "2024-01-01T00:00:00"},
     end_time : {"", "2024-01-02T00:00:00"},
     minimal_response : {False, True}]

HistoryArguments ==
    { [key \in keys |-> full[key]] :
        full \in HistoryArgumentValues,
        keys \in SUBSET {"entity_id", "start_time", "end_time", "minimal_response"} }

\* handleHAToolCall on a ha_get_history request: Home Assistant is sent one
\* request and answers it or fails
CallHaGetHistory(arguments, failed) ==
    /\ req' = [op |-> "ha_get_history", arguments |-> arguments]
    /\ res' = [kind |-> "value",
               sent |-> HistoryEndpoint(HistoryParams(arguments)),
               result |-> handleHAToolCall("ha_get_history", failed)]
    /\ UNCHANGED <<now, stores, history, logged>>

\* The history specification: ha_get_history is called with any arguments.
NextHistory ==
    \E arguments \in HistoryArguments, failed \in BOOLEAN :
        CallHaGetHistory(arguments, failed)

SpecHistory == Init /\ [][NextHistory]_vars

-----------------------------------------------------------------------------
(* Vocabulary of the properties *)

\* response r is the JSON error `error` with HTTP status `status`
IsJsonError(r, status, error) ==
    /\ r.kind = "json"
    /\ r.status = status
    /\ r.body.error = error

\* the codes for which an exchange has succeeded
ExchangedCodes == { issuedTokens[t].code : t \in DOMAIN issuedTokens }

\* body q passes the required-fields and grant-type checks of POST /token
WellFormedTokenBody(q) ==
    /\ q.grant_type = "authorization_code"
    /\ q.code \notin {Undefined, ""}
    /\ q.code_verifier \notin {Undefined, ""}
    /\ q.client_id \notin {Undefined, ""}

-----------------------------------------------------------------------------
(* C1 *)

\* C1: one-time use.  Once an exchange for code C has succeeded, every later
\* POST /token carrying C responds 400 and stores no access token, and when it
\* has its required fields and the authorization_code grant type the error is
\* invalid_grant, whatever its code_verifier, client_id and redirect_uri.
C1_OneTimeUse ==
    [][ (req'.op = "token" /\ req'.code \in ExchangedCodes)
        => /\ res'.kind = "json" /\ res'.status = 400
           /\ accessTokens' = accessTokens
           /\ WellFormedTokenBody(req') => IsJsonError(res', 400, "invalid_grant") ]_vars

\* a second exchange of an exchanged code, with the right verifier and client,
\* has been refused
C1_Witness ==
    /\ req.op = "token"
    /\ req.code \in ExchangedCodes
    /\ req.code_verifier = "V1" /\ req.client_id = "abc"
    /\ IsJsonError(res, 400, "invalid_grant")

-----------------------------------------------------------------------------
(* C2 *)

\* C2: tamper rejection burns the code.  A POST /token for a stored code C
\* whose code_verifier does not hash (S256) to the stored codeChallenge
\* responds 400 invalid_grant, removes C's session and stores no access token;
\* every later POST /token for C responds 400 and stores no token, and when it
\* has its required fields and the authorization_code grant type (the one with
\* the correct verifier and client_id included) the error is invalid_grant.
C2_TamperBurnsCode ==
    [][ /\ ( /\ req'.op = "token"
             /\ WellFormedTokenBody(req')
             /\ req'.code \in DOMAIN authorizationCodes
             /\ Sha256Base64Url(req'.code_verifier)
                    # authorizationCodes[req'.code].codeChallenge )
           => /\ IsJsonError(res', 400, "invalid_grant")
              /\ req'.code \notin DOMAIN authorizationCodes'
              /\ accessTokens' = accessTokens
        /\ (req'.op = "token" /\ req'.code \in burned)
           => /\ res'.kind = "json" /\ res'.status = 400
              /\ accessTokens' = accessTokens
              /\ WellFormedTokenBody(req') => IsJsonError(res', 400, "invalid_grant") ]_vars

\* the rightful client's exchange of a code that a bad verifier burned has
\* been refused, and no exchange of that code ever succeeded
C2_Witness ==
    /\ req.op = "token"
    /\ req.code \in burned
    /\ req.code \notin ExchangedCodes
    /\ req.code_verifier = "V1" /\ req.client_id = "abc" /\ req.redirect_uri = Undefined
    /\ logged = <<AuthFailure("invalid_authorization_code")>>
    /\ IsJsonError(res, 400, "invalid_grant")

-----------------------------------------------------------------------------
(* C3 *)

\* C3: session expiry is enforced at lookup.  A POST /token for the code of a
\* session created more than 10 minutes ago responds 400 invalid_grant and
\* issues no access token, whether or not the sweep has run since.  (Stated for
\* requests that carry the required fields and the authorization_code grant.)
C3_SessionExpiryAtLookup ==
    [][ ( /\ req'.op = "token"
          /\ WellFormedTokenBody(req')
          /\ req'.code \in DOMAIN authorizationCodes
          /\ now - authorizationCodes[req'.code].createdAt > SessionTtlMs )
        => /\ IsJsonError(res', 400, "invalid_grant")
           /\ accessTokens' = accessTokens ]_vars

-----------------------------------------------------------------------------
(* C4 *)

\* C4: access-token expiry is enforced at lookup.  A protected request that
\* presents a token issued at T at a time now > T + 3600 s gets 401
\* invalid_token, the protected handler is not invoked and the token is not in
\* the token store afterwards, whether or not the sweep has run.
C4_TokenExpiryAtLookup ==
    [][ \A t \in DOMAIN issuedTokens :
          ( /\ req'.op = "bearer"
            /\ req'.authorization = "Bearer " \o t
            /\ now > issuedTokens[t].issuedAt + ExpiresIn * 1000 )
          => /\ IsJsonError(res', 401, "invalid_token")
             /\ t \notin DOMAIN accessTokens' ]_vars

\* an expired token that the sweep had not removed has been presented and
\* refused
C4_Witness ==
    /\ req.op = "bearer"
    /\ \E t \in DOMAIN issuedTokens :
         /\ req.authorization = "Bearer " \o t
         /\ now > issuedTokens[t].issuedAt + ExpiresIn * 1000
    /\ logged = <<AuthFailure("expired_access_token")>>
    /\ IsJsonError(res, 401, "invalid_token")

-----------------------------------------------------------------------------
(* C5 *)

\* the Authorization header h has the form 'Bearer <t>' for a key t of the
\* access-token store whose expiresAt has not passed
PresentsValidToken(h) ==
    \E t \in DOMAIN accessTokens :
        /\ h = "Bearer " \o t
        /\ now <= accessTokens[t].expiresAt

\* C5: the bearer middleware invokes the protected handler if and only if the
\* Authorization header is 'Bearer <t>' with t a key of the access-token store
\* and now <= that token's expiresAt; every other request gets 401
\* invalid_token.
C5_NextIffValidToken ==
    [][ req'.op = "bearer"
        => /\ (res'.kind = "next") <=> PresentsValidToken(req'.authorization)
           /\ res'.kind # "next" => IsJsonError(res', 401, "invalid_token") ]_vars

\* a token has been accepted at the very instant it expires
C5_Witness ==
    /\ req.op = "bearer"
    /\ res.kind = "next"
    /\ \E t \in DOMAIN accessTokens :
         /\ req.authorization = "Bearer " \o t
         /\ now = accessTokens[t].expiresAt

-----------------------------------------------------------------------------
(* C6 *)

\* C6: no double spend.  Whatever the order in which POST /token requests for
\* one code, /authorize requests and sweeps run, at most one exchange of a
\* code succeeds: no two issued tokens come from the same code.
C6_NoDoubleSpend ==
    \A t1, t2 \in DOMAIN issuedTokens :
        issuedTokens[t1].code = issuedTokens[t2].code => t1 = t2

\* a code has been exchanged while another session is pending, and a further
\* exchange of the exchanged code by the rightful client has just lost
C6_Witness ==
    /\ Cardinality(DOMAIN issuedTokens) >= 1
    /\ req.op = "token"
    /\ WellFormedTokenBody(req)
    /\ req.code \in ExchangedCodes
    /\ req.redirect_uri = "https://claude.ai/cb"
    /\ res.kind = "json" /\ res.status = 400
    /\ Cardinality(DOMAIN authorizationCodes) >= 1

-----------------------------------------------------------------------------
(* Vocabulary of the /authorize properties *)

\* a parameter is missing when it is absent or empty
Missing(x) == x \in {Undefined, ""}

\* one of the five required parameters of query q is missing
MissingAuthorizeParameter(q) ==
    \/ Missing(q.client_id) \/ Missing(q.redirect_uri) \/ Missing(q.response_type)
    \/ Missing(q.code_challenge) \/ Missing(q.code_challenge_method)

\* query q passes the presence, response_type and code_challenge_method checks
PassesParameterChecks(q) ==
    /\ ~MissingAuthorizeParameter(q)
    /\ q.response_type = "code"
    /\ q.code_challenge_method = "S256"

RECURSIVE AfterFirst(_, _)
\* the part of s after the first occurrence of sep; "" when there is none
AfterFirst(s, sep) ==
    IF Len(s) < Len(sep) THEN ""
    ELSE IF SubSeq(s, 1, Len(sep)) = sep THEN SubSeq(s, Len(sep) + 1, Len(s))
    ELSE AfterFirst(SubSeq(s, 2, Len(s)), sep)

RECURSIVE TakeUntil(_, _)
\* the longest prefix of s without a character of stops
TakeUntil(s, stops) ==
    IF s = "" \/ SubSeq(s, 1, 1) \in stops THEN ""
    ELSE SubSeq(s, 1, 1) \o TakeUntil(SubSeq(s, 2, Len(s)), stops)

\* the host of an absolute URI: what lies between "://" and the port, path,
\* query or fragment
Host(uri) == TakeUntil(AfterFirst(uri, "://"), {"/", ":", "?", "#"})

\* the trusted callback hosts, and the trusted callback prefixes
TrustedHosts == {"claude.ai", "claude.com"}
TrustedPrefixes == {"https://claude.ai/", "https://claude.com/"}

\* uri begins with a trusted callback prefix
HasTrustedPrefix(uri) ==
    \E p \in TrustedPrefixes : Len(uri) >= Len(p) /\ SubSeq(uri, 1, Len(p)) = p

-----------------------------------------------------------------------------
(* C7 *)

-----------------------------------------------------------------------------
(* C8 *)

\* C8: GET /authorize validation is ordered and short-circuiting.  The error
\* is that of the first failing check among (1) a required parameter missing
\* -> invalid_request, (2) response_type # code -> unsupported_response_type,
\* (3) code_challenge_method # S256 -> invalid_request, (4) untrusted
\* redirect_uri -> invalid_request; each is HTTP 400 with body
\* {error, error_description}.
C8_AuthorizeValidationOrder ==
    [][ req'.op = "authorize"
        => /\ MissingAuthorizeParameter(req')
                => IsJsonError(res', 400, "invalid_request")
           /\ (~MissingAuthorizeParameter(req') /\ req'.response_type # "code")
                => IsJsonError(res', 400, "unsupported_response_type")
           /\ ( /\ ~MissingAuthorizeParameter(req') /\ req'.response_type = "code"
                /\ req'.code_challenge_method # "S256" )
                => IsJsonError(res', 400, "invalid_request")
           /\ (PassesParameterChecks(req') /\ ~HasTrustedPrefix(req'.redirect_uri))
                => IsJsonError(res', 400, "invalid_request")
           /\ res'.kind = "json"
                => /\ res'.status = 400
                   /\ DOMAIN res'.body = {"error", "error_description"} ]_vars

\* a query failing checks (2), (3) and (4) at once has been answered with the
\* error of check (2)
C8_Witness ==
    /\ req.op = "authorize"
    /\ ~MissingAuthorizeParameter(req)
    /\ req.response_type = "token"
    /\ req.code_challenge_method = "plain"
    /\ req.redirect_uri = "https://evil.example/cb"
    /\ IsJsonError(res, 400, "unsupported_response_type")

-----------------------------------------------------------------------------
(* C9 *)

\* the value stored for an optional parameter x whose default is d
Defaulted(x, d) == IF Missing(x) THEN d ELSE x

\* C9: a GET /authorize that passes all four checks adds exactly one session,
\* keyed by the newly generated code, with codeChallenge, codeChallengeMethod,
\* redirectUri and clientId equal to the request's, scope and state defaulting
\* to "", resource defaulting to the base URL and createdAt = now; it leaves
\* every other session and the access-token store unchanged and responds 302
\* to redirect_uri with code = that code, plus state exactly when a non-empty
\* state was supplied.
C9_AuthorizeSuccess ==
    [][ ( /\ req'.op = "authorize"
          /\ PassesParameterChecks(req')
          /\ HasTrustedPrefix(req'.redirect_uri) )
        => /\ res'.kind = "redirect" /\ res'.status = 302
           /\ res'.location.uri = req'.redirect_uri
           /\ LET code == res'.location.params.code IN
              /\ code \notin DOMAIN authorizationCodes
              /\ DOMAIN authorizationCodes' = DOMAIN authorizationCodes \cup {code}
              /\ \A c \in DOMAIN authorizationCodes :
                    authorizationCodes'[c] = authorizationCodes[c]
              /\ authorizationCodes'[code] =
                    [codeChallenge |-> req'.code_challenge,
                     codeChallengeMethod |-> req'.code_challenge_method,
                     redirectUri |-> req'.redirect_uri,
                     clientId |-> req'.client_id,
                     scope |-> Defaulted(req'.scope, ""),
                     state |-> Defaulted(req'.state, ""),
                     resource |-> Defaulted(req'.resource, BaseUrl),
                     createdAt |-> now]
           /\ accessTokens' = accessTokens
           /\ IF Missing(req'.state)
              THEN DOMAIN res'.location.params = {"code"}
              ELSE /\ DOMAIN res'.location.params = {"code", "state"}
                   /\ res'.location.params.state = req'.state ]_vars

\* an authorization without scope and resource but with a state has been
\* accepted, at a time other than the start, while a token was in the store
C9_Witness ==
    /\ req.op = "authorize"
    /\ req.scope = Undefined /\ req.resource = Undefined /\ req.state = "xyz"
    /\ res.kind = "redirect"
    /\ res.location.params.state = "xyz"
    /\ authorizationCodes[res.location.params.code].scope = ""
    /\ authorizationCodes[res.location.params.code].resource = BaseUrl
    /\ now > 0
    /\ DOMAIN accessTokens # {}

-----------------------------------------------------------------------------
(* C10 *)

\* one of the four required fields of body q is missing
MissingTokenField(q) ==
    \/ Missing(q.grant_type) \/ Missing(q.code)
    \/ Missing(q.code_verifier) \/ Missing(q.client_id)

\* C10: POST /token early rejections are ordered and mutate nothing: (1) a
\* required field missing -> 400 invalid_request, (2) grant_type #
\* authorization_code -> 400 unsupported_grant_type, (3) code not a key of the
\* session store -> 400 invalid_grant; the first failing check decides, and
\* in all three cases both stores are unchanged.
C10_TokenEarlyRejections ==
    [][ req'.op = "token"
        => /\ MissingTokenField(req')
                => IsJsonError(res', 400, "invalid_request") /\ UNCHANGED stores
           /\ (~MissingTokenField(req') /\ req'.grant_type # "authorization_code")
                => IsJsonError(res', 400, "unsupported_grant_type") /\ UNCHANGED stores
           /\ ( /\ ~MissingTokenField(req') /\ req'.grant_type = "authorization_code"
                /\ req'.code \notin DOMAIN authorizationCodes )
                => IsJsonError(res', 400, "invalid_grant") /\ UNCHANGED stores ]_vars

\* a request with the wrong grant type for a pending code has been refused,
\* and the code is still pending
C10_Witness ==
    /\ req.op = "token"
    /\ req.grant_type = "refresh_token"
    /\ req.code \in DOMAIN authorizationCodes
    /\ req.code_verifier = "V2"
    /\ IsJsonError(res, 400, "unsupported_grant_type")

-----------------------------------------------------------------------------
(* Vocabulary of the /token binding properties *)

\* body q names a stored code and carries the verifier of its session
PassesPkce(q) ==
    /\ WellFormedTokenBody(q)
    /\ q.code \in DOMAIN authorizationCodes
    /\ Sha256Base64Url(q.code_verifier) = authorizationCodes[q.code].codeChallenge

\* the step refused body req' with 400 invalid_grant, deleted the session of
\* its code and stored no access token
RefusedAndBurned ==
    /\ IsJsonError(res', 400, "invalid_grant")
    /\ authorizationCodes' = [c \in DOMAIN authorizationCodes \ {req'.code}
                                 |-> authorizationCodes[c]]
    /\ accessTokens' = accessTokens

-----------------------------------------------------------------------------
(* C11 *)

\* C11: client binding.  A POST /token for a stored code C with a correct
\* code_verifier but a client_id different from the session's clientId
\* responds 400 invalid_grant, deletes C's session and stores no access token;
\* a later exchange of C by the rightful client is refused with 400
\* invalid_grant as well.
C11_ClientBinding ==
    [][ /\ ( /\ req'.op = "token"
             /\ PassesPkce(req')
             /\ req'.client_id # authorizationCodes[req'.code].clientId )
           => RefusedAndBurned
        /\ ( /\ req'.op = "token"
             /\ WellFormedTokenBody(req')
             /\ req'.code \in burned
             /\ req'.client_id = "abc" )
           => IsJsonError(res', 400, "invalid_grant") /\ accessTokens' = accessTokens ]_vars

\* another client has presented a pending code with the right verifier and
\* has been refused, and the code is gone
C11_Witness ==
    /\ req.op = "token"
    /\ req.code_verifier = "V1" /\ req.client_id = "evil"
    /\ req.code \in burned
    /\ req.code \notin DOMAIN authorizationCodes
    /\ logged = <<AuthFailure("client_id_mismatch")>>
    /\ IsJsonError(res, 400, "invalid_grant")

-----------------------------------------------------------------------------
(* C12 *)

\* C12: redirect binding.  A POST /token for a stored code C that passes the
\* PKCE and client_id checks and supplies a (non-empty) redirect_uri different
\* from the session's redirectUri responds 400 invalid_grant, deletes C's
\* session and stores no access token; when redirect_uri is omitted the check
\* is skipped and the exchange succeeds with 200.
C12_RedirectBinding ==
    [][ ( /\ req'.op = "token"
          /\ PassesPkce(req')
          /\ req'.client_id = authorizationCodes[req'.code].clientId )
        => IF Missing(req'.redirect_uri)
           THEN /\ res'.kind = "json" /\ res'.status = 200
                /\ req'.code \notin DOMAIN authorizationCodes'
           ELSE IF req'.redirect_uri # authorizationCodes[req'.code].redirectUri
           THEN RefusedAndBurned
           ELSE res'.kind = "json" /\ res'.status = 200 ]_vars

\* the rightful client has presented a pending code with the right verifier
\* and another trusted redirect_uri than the session's, and has been refused
C12_Witness ==
    /\ req.op = "token"
    /\ req.code_verifier = "V1" /\ req.client_id = "abc"
    /\ req.redirect_uri = "https://claude.com/cb"
    /\ req.code \in burned
    /\ req.code \notin DOMAIN authorizationCodes
    /\ logged = <<AuthFailure("redirect_uri_mismatch")>>
    /\ IsJsonError(res, 400, "invalid_grant")

-----------------------------------------------------------------------------
(* C13 *)

\* body q passes every check of POST /token
PassesAllTokenChecks(q) ==
    /\ PassesPkce(q)
    /\ q.client_id = authorizationCodes[q.code].clientId
    /\ \/ Missing(q.redirect_uri)
       \/ q.redirect_uri = authorizationCodes[q.code].redirectUri

\* C13: a POST /token that passes every check deletes the session of the code
\* and leaves every other session unchanged, adds exactly one AccessToken keyed
\* by a newly generated token, with clientId, scope and resource those of the
\* session (the resource field of the request has no effect) and expiresAt =
\* now + 3600 s, leaves every other token unchanged, and responds 200 with
\* {access_token, token_type: "Bearer", expires_in: 3600}, plus scope exactly
\* when the session's scope is non-empty.
C13_TokenSuccess ==
    [][ (req'.op = "token" /\ PassesAllTokenChecks(req'))
        => LET session == authorizationCodes[req'.code] IN
           /\ res'.kind = "json" /\ res'.status = 200
           /\ authorizationCodes' = [c \in DOMAIN authorizationCodes \ {req'.code}
                                        |-> authorizationCodes[c]]
           /\ LET t == res'.body.access_token IN
              /\ t \notin DOMAIN accessTokens
              /\ DOMAIN accessTokens' = DOMAIN accessTokens \cup {t}
              /\ \A u \in DOMAIN accessTokens : accessTokens'[u] = accessTokens[u]
              /\ accessTokens'[t].clientId = session.clientId
              /\ accessTokens'[t].scope = session.scope
              /\ accessTokens'[t].resource = session.resource
              /\ accessTokens'[t].expiresAt = now + ExpiresIn * 1000
           /\ res'.body.token_type = "Bearer"
           /\ res'.body.expires_in = 3600
           /\ IF session.scope = ""
              THEN DOMAIN res'.body = {"access_token", "token_type", "expires_in"}
              ELSE /\ DOMAIN res'.body =
                         {"access_token", "token_type", "expires_in", "scope"}
                   /\ res'.body.scope = session.scope ]_vars

\* a session with a scope and the default resource has been exchanged by a
\* request naming another resource, while another session was pending and an
\* earlier token was in the store
C13_Witness ==
    /\ req.op = "token"
    /\ req.resource = "https://other.example/mcp"
    /\ res.kind = "json" /\ res.status = 200
    /\ res.body.expires_in = 3600
    /\ "scope" \in DOMAIN res.body
    /\ accessTokens[res.body.access_token].resource = BaseUrl
    /\ accessTokens[res.body.access_token].scope = "mcp"
    /\ EarlierToken \in DOMAIN accessTokens
    /\ authorizationCodes # <<>>

-----------------------------------------------------------------------------
(* C14 *)

\* C14: no rotation or sliding expiry.  A protected request that passes the
\* bearer middleware leaves the session store and the access-token store
\* unchanged; the expiresAt of every token in the store stays the one it was
\* issued with, so a token is refused once now > its original expiresAt,
\* however often it has been validated before.
C14_NoSlidingExpiry ==
    [][ req'.op = "bearer"
        => /\ res'.kind = "next" => UNCHANGED stores
           /\ \A t \in DOMAIN issuedTokens \cap DOMAIN accessTokens' :
                 accessTokens'[t].expiresAt = issuedTokens[t].issuedAt + ExpiresIn * 1000
           /\ \A t \in DOMAIN issuedTokens :
                 ( /\ req'.authorization = "Bearer " \o t
                   /\ now > issuedTokens[t].issuedAt + ExpiresIn * 1000 )
                 => res'.kind # "next" ]_vars

\* a token has passed the middleware some time after it was issued, and its
\* expiresAt is still the one it was issued with
C14_Witness ==
    /\ req.op = "bearer"
    /\ res.kind = "next"
    /\ \E t \in DOMAIN issuedTokens \cap DOMAIN accessTokens :
         /\ req.authorization = "Bearer " \o t
         /\ now > issuedTokens[t].issuedAt
         /\ accessTokens[t].expiresAt = issuedTokens[t].issuedAt + ExpiresIn * 1000

-----------------------------------------------------------------------------
(* C15 *)

\* C15: every 401 response of the bearer middleware, for a missing or
\* malformed Authorization header, for an unknown token and for an expired
\* token alike, carries a WWW-Authenticate header.
C15_UnauthorizedCarriesChallenge ==
    [][ (req'.op = "bearer" /\ res'.kind = "json" /\ res'.status = 401)
        => res'.wwwAuthenticate # Undefined ]_vars

-----------------------------------------------------------------------------
(* C16 *)

\* C16: sweep effect.  Immediately after a sweep run at time now, the session
\* store holds no session with now - createdAt > 10 minutes and the token
\* store holds no token with now > expiresAt; every session and token not
\* meeting those conditions is still present and unchanged; the sweep adds
\* no entry.
C16_SweepEffect ==
    [][ req'.op = "sweep"
        => /\ \A c \in DOMAIN authorizationCodes' :
                 ~(now' - authorizationCodes'[c].createdAt > SessionTtlMs)
           /\ \A t \in DOMAIN accessTokens' :
                 ~(now' > accessTokens'[t].expiresAt)
           /\ \A c \in DOMAIN authorizationCodes :
                 ~(now - authorizationCodes[c].createdAt > SessionTtlMs)
                 => /\ c \in DOMAIN authorizationCodes'
                    /\ authorizationCodes'[c] = authorizationCodes[c]
           /\ \A t \in DOMAIN accessTokens :
                 ~(now > accessTokens[t].expiresAt)
                 => /\ t \in DOMAIN accessTokens'
                    /\ accessTokens'[t] = accessTokens[t]
           /\ DOMAIN authorizationCodes' \subseteq DOMAIN authorizationCodes
           /\ DOMAIN accessTokens' \subseteq DOMAIN accessTokens ]_vars

\* a sweep has just run; a session that no request ever removed is gone, and
\* a session exactly 10 minutes old is still in the store
C16_Witness ==
    /\ req.op = "sweep"
    /\ \E c \in generated :
         /\ Len(c) = CodeLength
         /\ c \notin DOMAIN authorizationCodes
         /\ c \notin burned \cup ExchangedCodes
    /\ \E c \in DOMAIN authorizationCodes :
         now - authorizationCodes[c].createdAt = SessionTtlMs

-----------------------------------------------------------------------------
(* The handlers' effects on the stores, as functions of the stores *)

\* the session store after a sweep at instant t
SweptSessions(sessions, t) ==
    [c \in {x \in DOMAIN sessions : ~(t - sessions[x].createdAt > SessionTtlMs)}
        |-> sessions[c]]

\* the token store after a sweep at instant t
SweptTokens(tokens, t) ==
    [k \in {x \in DOMAIN tokens : ~(t > tokens[x].expiresAt)} |-> tokens[k]]

\* both stores after POST /token with body q, the clock reading t1 then t2 and
\* the generator returning accessToken
ExchangeStores(q, sessions, tokens, t1, t2, accessToken) ==
    IF \/ Falsy(q.grant_type) \/ Falsy(q.code)
       \/ Falsy(q.code_verifier) \/ Falsy(q.client_id)
       \/ q.grant_type # "authorization_code"
       \/ q.code \notin DOMAIN sessions
    THEN <<sessions, tokens>>
    ELSE IF BindingFailure(q, sessions[q.code]) # <<>>
    THEN <<MapDelete(sessions, q.code), tokens>>
    ELSE <<MapDelete(sessions, q.code),
           MapSet(tokens, accessToken,
                  [token |-> accessToken,
                   clientId |-> q.client_id,
                   scope |-> sessions[q.code].scope,
                   resource |-> sessions[q.code].resource,
                   expiresAt |-> t1 + ExpiresIn * 1000,
                   createdAt |-> t2])>>

\* the token store after a protected request with header h at instant t
BearerStore(h, tokens, t) ==
    IF Falsy(h) \/ ~StartsWith(h, "Bearer ") THEN tokens
    ELSE LET token == SubstringFrom(h, BearerPrefixLength) IN
         IF token \in DOMAIN tokens /\ t > tokens[token].expiresAt
         THEN MapDelete(tokens, token)
         ELSE tokens

-----------------------------------------------------------------------------
(* C17 *)

\* the token the step issued, if it issued one
IssuedNow ==
    IF res'.kind = "json" /\ res'.status = 200 THEN res'.body.access_token
    ELSE Undefined

\* a POST /token step (during which the clock did not move) leaves, once a
\* sweep follows it, the stores that the same request leaves when a sweep
\* precedes it
TokenCommutesWithSweep ==
    (req'.op = "token" /\ now' = now)
    => /\ stores' = ExchangeStores(req', authorizationCodes, accessTokens,
                                   now, now, IssuedNow)
       /\ <<SweptSessions(authorizationCodes', now), SweptTokens(accessTokens', now)>>
            = ExchangeStores(req', SweptSessions(authorizationCodes, now),
                             SweptTokens(accessTokens, now), now, now, IssuedNow)

\* the same for a protected request
BearerCommutesWithSweep ==
    req'.op = "bearer"
    => /\ accessTokens' = BearerStore(req'.authorization, accessTokens, now)
       /\ SweptTokens(accessTokens', now)
            = BearerStore(req'.authorization, SweptTokens(accessTokens, now), now)

\* a request for a key that is no longer in its store does not succeed, and
\* the delete of an absent key changes nothing
NoSuccessForRemovedKey ==
    /\ (req'.op = "token" /\ req'.code \notin DOMAIN authorizationCodes)
         => res'.status # 200 /\ UNCHANGED stores
    /\ ( /\ req'.op = "bearer"
         /\ \A t \in DOMAIN accessTokens : req'.authorization # "Bearer " \o t )
         => res'.kind # "next" /\ UNCHANGED stores

\* C17: sweep and request-triggered removals are idempotent and
\* order-independent.  For any key, whether the sweep runs before or after a
\* /token or middleware request on that key, the final stores are the same,
\* deleting an absent key is a no-op, and no request succeeds for a key the
\* sweep has already removed.
C17_SweepOrderIndependent ==
    [][ /\ TokenCommutesWithSweep
        /\ BearerCommutesWithSweep
        /\ NoSuccessForRemovedKey ]_vars

-----------------------------------------------------------------------------
(* C18 *)

\* C18: an AuthorizationSession is never mutated after creation.  Under every
\* /authorize, /token, middleware and sweep step, a session that is in the
\* store before and after the step has the same codeChallenge,
\* codeChallengeMethod, redirectUri, clientId, scope, state, resource and
\* createdAt after it as before; so from its creation to its removal it keeps
\* its creation values.
C18_SessionImmutable ==
    [][ \A c \in DOMAIN authorizationCodes \cap DOMAIN authorizationCodes' :
          authorizationCodes'[c] = authorizationCodes[c] ]_vars

\* a session created some time ago is still pending after an exchange of
\* another code has been refused and that code burned
C18_Witness ==
    /\ req.op = "token"
    /\ req.code \in burned
    /\ IsJsonError(res, 400, "invalid_grant")
    /\ \E c \in DOMAIN authorizationCodes :
         /\ c # req.code
         /\ authorizationCodes[c].createdAt < now
         /\ authorizationCodes[c].codeChallenge = Sha256Base64Url("V1")

-----------------------------------------------------------------------------
(* C19 *)

\* the step accepted an authorization
Authorized == req'.op = "authorize" /\ res'.kind = "redirect"

-----------------------------------------------------------------------------
(* C20 *)

\* C20: every AccessToken in the token store satisfies expiresAt = createdAt
\* + 3600 s exactly, whatever the clock does while handleToken runs.
C20_FixedLifetime ==
    \A t \in DOMAIN accessTokens :
        accessTokens[t].expiresAt = accessTokens[t].createdAt + ExpiresIn * 1000

-----------------------------------------------------------------------------
(* C21 *)

\* C21: PKCE verifier.  verify(v, c, "S256") is true exactly when c is the
\* base64url SHA-256 of v; verify(v, c, "plain") is true exactly when v = c;
\* verify(v, c, m) is false for every other method m; the call changes no
\* store and no log, and its result depends on v, c and m alone.
C21_PkceVerifier ==
    [][ req'.op = "verify"
        => /\ req'.method = "S256"
                => (res'.value <=> req'.challenge = Sha256Base64Url(req'.verifier))
           /\ req'.method = "plain"
                => (res'.value <=> req'.verifier = req'.challenge)
           /\ req'.method \notin {"S256", "plain"} => ~res'.value
           /\ UNCHANGED <<stores, logged>> ]_vars

\* a verifier has been compared with itself under "plain" and accepted, and
\* the token store is as it was
C21_Witness ==
    /\ req.op = "verify"
    /\ req.method = "plain"
    /\ req.verifier = "V1" /\ req.challenge = "V1"
    /\ res.value
    /\ EarlierToken \in DOMAIN accessTokens

-----------------------------------------------------------------------------
(* C22 *)

\* the step is a POST /token for code c
ExchangeOf(c) == req'.op = "token" /\ req'.code = c

\* C22: end-to-end success.  A session stored by /authorize stays in the
\* store, unchanged, while it is at most 10 minutes old and no POST /token for
\* its code is made; a POST /token for it with the authorization_code grant,
\* the verifier V of its challenge S256(V) and its client_id responds 200
\* with an access_token, which is then in the token store; a token issued at
\* most 3600 s ago is in the token store, and a protected request presenting
\* it passes the middleware, while a request presenting a string that is not
\* a key of the token store gets 401 invalid_token.
C22_EndToEnd ==
    [][ /\ \A c \in DOMAIN authorizationCodes :
              ( /\ now - authorizationCodes[c].createdAt <= SessionTtlMs
                /\ ~ExchangeOf(c) )
              => /\ c \in DOMAIN authorizationCodes'
                 /\ authorizationCodes'[c] = authorizationCodes[c]
        /\ \A c \in DOMAIN authorizationCodes :
              ( /\ ExchangeOf(c)
                /\ req'.grant_type = "authorization_code"
                /\ Sha256Base64Url(req'.code_verifier) = authorizationCodes[c].codeChallenge
                /\ req'.client_id = authorizationCodes[c].clientId
                /\ req'.redirect_uri = Undefined )
              => /\ res'.kind = "json" /\ res'.status = 200
                 /\ res'.body.access_token \in DOMAIN accessTokens'
        /\ \A t \in DOMAIN issuedTokens' :
              now' <= issuedTokens'[t].issuedAt + ExpiresIn * 1000
              => t \in DOMAIN accessTokens'
        /\ req'.op = "bearer"
           => /\ \A t \in DOMAIN issuedTokens :
                    ( /\ req'.authorization = "Bearer " \o t
                      /\ now <= issuedTokens[t].issuedAt + ExpiresIn * 1000 )
                    => res'.kind = "next"
              /\ ( /\ StartsWith(req'.authorization, "Bearer ")
                   /\ SubstringFrom(req'.authorization, BearerPrefixLength)
                         \notin DOMAIN accessTokens )
                 => IsJsonError(res', 401, "invalid_token") ]_vars

\* a token obtained through /authorize and /token has passed the middleware
\* exactly 3600 s after it was issued
C22_Witness ==
    /\ req.op = "bearer"
    /\ res.kind = "next"
    /\ \E t \in DOMAIN issuedTokens :
         /\ req.authorization = "Bearer " \o t
         /\ now = issuedTokens[t].issuedAt + ExpiresIn * 1000
         /\ Len(issuedTokens[t].code) = CodeLength

-----------------------------------------------------------------------------
(* C24 *)

\* the audit-log calls of the step include an authAttempt
AttemptLogged == \E i \in DOMAIN logged' : logged'[i].fn = "authAttempt"

\* the audit-log calls of the step include an authFailure
FailureLogged == \E i \in DOMAIN logged' : logged'[i].fn = "authFailure"

\* C24: audit logging.  A /token response caused by an unknown code, a bad
\* verifier, a client_id mismatch or a redirect_uri mismatch, and a middleware
\* 401 caused by an unknown or an expired token, comes with exactly one
\* authFailure call carrying the matching reason; authAttempt(true, ip,
\* client_id) is logged exactly when an access token is stored; no authFailure
\* is logged on a successful exchange or validation.
C24_AuditLogging ==
    [][ /\ (req'.op = "token" /\ WellFormedTokenBody(req'))
           => /\ req'.code \notin DOMAIN authorizationCodes
                   => logged' = <<AuthFailure("invalid_authorization_code")>>
              /\ ( /\ req'.code \in DOMAIN authorizationCodes
                   /\ ~PassesPkce(req') )
                   => logged' = <<AuthFailure("invalid_code_verifier")>>
              /\ ( /\ PassesPkce(req')
                   /\ req'.client_id # authorizationCodes[req'.code].clientId )
                   => logged' = <<AuthFailure("client_id_mismatch")>>
              /\ ( /\ PassesPkce(req')
                   /\ req'.client_id = authorizationCodes[req'.code].clientId
                   /\ ~Missing(req'.redirect_uri)
                   /\ req'.redirect_uri # authorizationCodes[req'.code].redirectUri )
                   => logged' = <<AuthFailure("redirect_uri_mismatch")>>
              /\ res'.status = 200 => logged' = <<AuthAttempt(req'.client_id)>>
        /\ ( /\ req'.op = "bearer"
             /\ StartsWith(req'.authorization, "Bearer ") )
           => LET token == SubstringFrom(req'.authorization, BearerPrefixLength) IN
              /\ token \notin DOMAIN accessTokens
                   => logged' = <<AuthFailure("invalid_access_token")>>
              /\ (token \in DOMAIN accessTokens /\ now > accessTokens[token].expiresAt)
                   => logged' = <<AuthFailure("expired_access_token")>>
              /\ res'.kind = "next" => ~FailureLogged
        /\ AttemptLogged <=> (DOMAIN accessTokens' \ DOMAIN accessTokens # {}) ]_vars

\* an exchange has succeeded and its only audit call is the authAttempt
C24_Witness ==
    /\ req.op = "token"
    /\ res.kind = "json" /\ res.status = 200
    /\ res.body.access_token \in DOMAIN accessTokens
    /\ logged = <<AuthAttempt("abc")>>

-----------------------------------------------------------------------------
(* C23 *)

\* response r is a JSON error with one of the given error codes
IsJsonErrorAmong(r, status, errors) ==
    /\ r.kind = "json"
    /\ r.status = status
    /\ DOMAIN r.body = {"error", "error_description"}
    /\ r.body.error \in errors

\* C23: no fault escapes a handler.  Every /authorize, /token and middleware
\* request receives one response: a specified outcome (302, 200, next, 400 or
\* 401 with an OAuth error code) when the handler completes, and HTTP 500 with
\* error server_error and description "Internal server error" when a fault
\* interrupts it, wherever in the handler body the fault occurs.
C23_NoFaultEscapes ==
    [][ /\ req'.op = "authorize"
           => \/ res'.kind = "redirect" /\ res'.status = 302
              \/ IsJsonErrorAmong(res', 400,
                                  {"invalid_request", "unsupported_response_type"})
        /\ req'.op = "token"
           => \/ res'.kind = "json" /\ res'.status = 200
              \/ IsJsonErrorAmong(res', 400, {"invalid_request", "unsupported_grant_type",
                                              "invalid_grant"})
        /\ req'.op = "bearer"
           => \/ res'.kind = "next"
              \/ IsJsonErrorAmong(res', 401, {"invalid_token"})
        /\ req'.op = "fault"
           => /\ IsJsonErrorAmong(res', 500, {"server_error"})
              /\ res'.body.error_description = "Internal server error" ]_vars

\* an exchange has been interrupted after its token was stored: the client
\* has received 500 and the token is in the store
C23_Witness ==
    /\ req.op = "fault"
    /\ req.request.op = "token"
    /\ req.point = "after set"
    /\ res.kind = "json" /\ res.status = 500
    /\ accessTokens # <<>>
    /\ req.request.code \notin DOMAIN authorizationCodes

-----------------------------------------------------------------------------
(* C25 *)

\* C25: the metadata endpoints are stateless and consistent with the
\* endpoints they describe.  A metadata request changes neither store and is
\* answered 200 with a document that does not depend on the state: the
\* authorization-server document lists code_challenge_methods_supported =
\* [S256], grant_types_supported = [authorization_code] and
\* response_types_supported = [code], the protected-resource document
\* scopes_supported = [mcp] and bearer_methods_supported = [header].  The
\* listed values are the ones accepted: an otherwise valid /authorize is
\* accepted exactly when its response_type and code_challenge_method are
\* listed, and a complete /token body is refused as unsupported_grant_type
\* exactly when its grant_type is not listed.
C25_MetadataConsistent ==
    [][ /\ req'.op = "metadata"
           => /\ UNCHANGED <<now, stores>>
              /\ res'.kind = "json" /\ res'.status = 200
              /\ req'.document = "oauth-authorization-server"
                 => /\ res'.body.code_challenge_methods_supported = <<"S256">>
                    /\ res'.body.grant_types_supported = <<"authorization_code">>
                    /\ res'.body.response_types_supported = <<"code">>
                    /\ res'.body = AuthorizationServerMetadata
              /\ req'.document = "oauth-protected-resource"
                 => /\ res'.body.scopes_supported = <<"mcp">>
                    /\ res'.body.bearer_methods_supported = <<"header">>
                    /\ res'.body = ProtectedResourceMetadata
        /\ ( /\ req'.op = "authorize"
             /\ ~MissingAuthorizeParameter(req')
             /\ HasTrustedPrefix(req'.redirect_uri) )
           => ( res'.kind = "redirect"
                <=> /\ req'.response_type
                          \in Elements(AuthorizationServerMetadata.response_types_supported)
                    /\ req'.code_challenge_method
                          \in Elements(AuthorizationServerMetadata.code_challenge_methods_supported) )
        /\ (req'.op = "token" /\ ~MissingTokenField(req'))
           => ( IsJsonError(res', 400, "unsupported_grant_type")
                <=> req'.grant_type
                       \notin Elements(AuthorizationServerMetadata.grant_types_supported) )
      ]_vars

\* the authorization-server document has been fetched while a session and a
\* token are in the stores
C25_Witness ==
    /\ req.op = "metadata"
    /\ req.document = "oauth-authorization-server"
    /\ res.body.issuer = BaseUrl
    /\ authorizationCodes # <<>>
    /\ accessTokens # <<>>

-----------------------------------------------------------------------------
(* C26 *)

\* the bits of byte b, most significant first
ByteBits(b) == [i \in 1..8 |-> (b \div 2^(8 - i)) % 2]

RECURSIVE BitsOf(_)
\* the bits of a byte sequence
BitsOf(bytes) ==
    IF Len(bytes) = 0 THEN <<>>
    ELSE ByteBits(bytes[1]) \o BitsOf(SubSeq(bytes, 2, Len(bytes)))

\* the first k bits of a byte sequence
LeadingBits(bytes, k) == SubSeq(BitsOf(bytes), 1, k)

\* the step called the generator
Generated == req'.op = "generate"

\* C26 as stated: the string generate(n) returns carries the full entropy of
\* its n input bytes: two different byte sequences of the same length never
\* give the same string.
C26_FullEntropy ==
    [][ Generated
        => \A other \in RandomBytes :
              ( /\ Len(other) = Len(req'.bytes)
                /\ generateRandomStringOf(other) = res'.value )
              => other = req'.bytes ]_vars

\* C26, amended: generate(n) encodes n random bytes in unpadded base64url,
\* which has ceil(4n/3) >= n characters of the URL-safe alphabet, and returns
\* exactly the first n of them.  The result is determined by the first 6n
\* bits of the input, and by nothing else: two byte sequences of length n
\* give the same string exactly when they agree on their first 6n bits.
C26_GeneratorSizing ==
    [][ Generated
        => LET bytes == req'.bytes
               n == Len(bytes)
           IN /\ n >= 1
              /\ Len(Base64UrlEncode(bytes)) = Base64UrlLength(n)
              /\ Base64UrlLength(n) >= n
              /\ Len(res'.value) = n
              /\ res'.value = SubSeq(Base64UrlEncode(bytes), 1, n)
              /\ \A i \in 1..n :
                    \E v \in 0..63 : SubSeq(res'.value, i, i) = Base64UrlChar(v)
              /\ \A other \in RandomBytes :
                    Len(other) = n
                    => ( generateRandomStringOf(other) = res'.value
                         <=> LeadingBits(other, 6 * n) = LeadingBits(bytes, 6 * n) )
      ]_vars

\* the generator has been called at the access-token call site on 48 bytes
\* whose last byte is not zero, and has returned the string it returns for
\* 48 zero bytes
C26_Witness ==
    /\ req.op = "generate"
    /\ Len(req.bytes) = TokenLength
    /\ req.bytes[TokenLength] = 255
    /\ Len(res.value) = TokenLength
    /\ res.value = Repeat("A", TokenLength)

-----------------------------------------------------------------------------
(* C27 *)

\* both Home Assistant settings of a configuration are set
HaConfigured(config) == ~Missing(config.haBaseUrl) /\ ~Missing(config.haToken)

\* result is the error result for a tool nobody handles
IsUnknownTool(result, name) ==
    result = [content |-> <<[type |-> "text", text |-> "Unknown tool: " \o name]>>,
              isError |-> TRUE]

\* result was produced by module m
ResultOf(result, m, name) ==
    result.content[1].text \in {"<" \o m \o ": " \o name \o ">", "<error of " \o m \o ">"}

\* the Hevy modules of server that list tool name, as positions in the order
\* workouts, routines, exercises, folders
HevyHandlers(server, name) ==
    { i \in DOMAIN HevyModules : name \in Elements(server.modules[HevyModules[i]]) }

\* C27: Home Assistant is optional and the tool list matches the dispatch.
\* The ha_* tools are listed if and only if haBaseUrl and haToken are both
\* configured; a call of an ha_* tool is answered by the Home Assistant
\* handler in exactly that case, and otherwise, as for any name no module
\* handles, by the isError result "Unknown tool: <name>"; the Hevy tools are
\* listed and dispatched whatever the Home Assistant configuration; and a
\* call returns the result of the first module, in the order workouts,
\* routines, exercises, folders, Home Assistant, that handles the tool.
C27_ToolsMatchDispatch ==
    [][ /\ req'.op = "tools/list"
           => /\ \A name \in Elements(getHATools) :
                    name \in Elements(res'.tools) <=> HaConfigured(req'.server.config)
              /\ \A m \in Elements(HevyModules) :
                    Elements(req'.server.modules[m]) \subseteq Elements(res'.tools)
        /\ req'.op = "tools/call"
           => LET server == req'.server
                  name == req'.name
                  result == res'.result
              IN /\ name \in Elements(getHATools)
                    => IF HaConfigured(server.config)
                       THEN ResultOf(result, "ha", name)
                       ELSE IsUnknownTool(result, name)
                 /\ (name \notin Elements(getHATools) /\ HevyHandlers(server, name) = {})
                    => IsUnknownTool(result, name)
                 /\ HevyHandlers(server, name) # {}
                    => \E i \in HevyHandlers(server, name) :
                          /\ \A j \in HevyHandlers(server, name) : i <= j
                          /\ ResultOf(result, HevyModules[i], name)
                 /\ name \in Elements(server.allTools) <=> ~IsUnknownTool(result, name)
      ]_vars

\* a server configured with a Home Assistant URL and an empty token has
\* answered a call of ha_get_state with "Unknown tool"
C27_Witness ==
    /\ req.op = "tools/call"
    /\ req.name = "ha_get_state"
    /\ req.server.config.haBaseUrl = "http://ha.local:8123"
    /\ req.server.config.haToken = ""
    /\ IsUnknownTool(res.result, "ha_get_state")

-----------------------------------------------------------------------------
(* C28 *)

\* the values sent to Home Assistant under query key k
SentFor(sent, k) == { sent.query[i][2] : i \in { j \in DOMAIN sent.query : sent.query[j][1] = k } }

\* C28: ha_get_history forwards every supplied argument to Home Assistant.
\* For every combination of entity_id, start_time, end_time and
\* minimal_response: a supplied entity_id is sent as filter_entity_id,
\* whether or not start_time is supplied; a supplied end_time is sent as
\* end_time; minimal_response = true is sent as minimal_response; and no
\* filter is sent for an argument that was not supplied.
C28_HistoryForwardsArguments ==
    [][ req'.op = "ha_get_history"
        => LET arguments == req'.arguments
               sent == res'.sent
           IN /\ SentFor(sent, "filter_entity_id") =
                    IF Truthy(Get(arguments, "entity_id"))
                    THEN {arguments.entity_id} ELSE {}
              /\ SentFor(sent, "end_time") =
                    IF Truthy(Get(arguments, "end_time"))
                    THEN {arguments.end_time} ELSE {}
              /\ SentFor(sent, "minimal_response") =
                    IF Get(arguments, "minimal_response") = True
                    THEN {"true"} ELSE {}
      ]_vars

-----------------------------------------------------------------------------
(* C29 *)

\* C29: token provenance.  A step that adds an entry to the access-token
\* store is a POST /token whose code is, when the step is taken, a key of the
\* session store, whose code_verifier hashes under S256 to that session's
\* codeChallenge and whose client_id is the session's clientId; the entry's
\* clientId, scope and resource are the session's; and no step changes an
\* entry that stays in the store.  The store is empty at first, so every
\* entry of every reachable state was created that way.
C29_TokenProvenance ==
    [][ /\ \A t \in DOMAIN accessTokens' \ DOMAIN accessTokens :
              /\ req'.op = "token"
              /\ req'.code \in DOMAIN authorizationCodes
              /\ LET session == authorizationCodes[req'.code] IN
                 /\ session.codeChallengeMethod = "S256"
                 /\ Sha256Base64Url(req'.code_verifier) = session.codeChallenge
                 /\ req'.client_id = session.clientId
                 /\ accessTokens'[t].clientId = session.clientId
                 /\ accessTokens'[t].scope = session.scope
                 /\ accessTokens'[t].resource = session.resource
        /\ \A t \in DOMAIN accessTokens' \cap DOMAIN accessTokens :
              accessTokens'[t] = accessTokens[t]
      ]_vars

\* a token has just been issued to the client of its session, while another
\* session stays pending
C29_Witness ==
    /\ req.op = "token"
    /\ res.kind = "json" /\ res.status = 200
    /\ authorizationCodes # <<>>
    /\ DOMAIN accessTokens = {res.body.access_token}
    /\ accessTokens[res.body.access_token].clientId = req.client_id
    /\ issuedTokens[res.body.access_token].code = req.code

-----------------------------------------------------------------------------
(* C30 *)

\* C30: the stores are well formed.  In every reachable state every session
\* of the session store has codeChallengeMethod "S256", a non-empty clientId
\* and codeChallenge and a redirectUri beginning with https://claude.ai/ or
\* https://claude.com/, so that /token never verifies a challenge by the
\* plain method; and the token field of every entry of the access-token
\* store is its key.
C30_StoresWellFormed ==
    /\ \A c \in DOMAIN authorizationCodes :
          /\ authorizationCodes[c].codeChallengeMethod = "S256"
          /\ ~Missing(authorizationCodes[c].clientId)
          /\ ~Missing(authorizationCodes[c].codeChallenge)
          /\ HasTrustedPrefix(authorizationCodes[c].redirectUri)
    /\ \A t \in DOMAIN accessTokens : accessTokens[t].token = t

\* the store holds a session of another client than the one holding a token
C30_Witness ==
    /\ \E c \in DOMAIN authorizationCodes :
          /\ authorizationCodes[c].clientId = "evil"
          /\ authorizationCodes[c].redirectUri = "https://claude.com/cb"
    /\ \E t \in DOMAIN accessTokens : accessTokens[t].clientId = "abc"

-----------------------------------------------------------------------------
(* C31 *)

\* map m without key k, every other entry as it was
Without(m, k) == [x \in DOMAIN m \ {k} |-> m[x]]

\* C31: rejections have bounded effect.  An /authorize answered 400 leaves
\* both stores unchanged; a /token answered 400 leaves the access-token store
\* unchanged and removes at most the session keyed by the presented code,
\* every other session staying as it was; a middleware 401 for a missing or
\* malformed header or an unknown token leaves both stores unchanged, and a
\* 401 for an expired token removes that token and nothing else.
C31_RejectionsBounded ==
    [][ /\ (req'.op = "authorize" /\ res'.kind = "json" /\ res'.status = 400)
           => UNCHANGED stores
        /\ (req'.op = "token" /\ res'.kind = "json" /\ res'.status = 400)
           => /\ accessTokens' = accessTokens
              /\ authorizationCodes' \in
                    {authorizationCodes, Without(authorizationCodes, req'.code)}
        /\ (req'.op = "bearer" /\ res'.kind = "json" /\ res'.status = 401)
           => IF \/ Falsy(req'.authorization)
                 \/ ~StartsWith(req'.authorization, "Bearer ")
                 \/ SubstringFrom(req'.authorization, BearerPrefixLength)
                       \notin DOMAIN accessTokens
              THEN UNCHANGED stores
              ELSE LET token == SubstringFrom(req'.authorization, BearerPrefixLength) IN
                   /\ now > accessTokens[token].expiresAt
                   /\ accessTokens' = Without(accessTokens, token)
                   /\ authorizationCodes' = authorizationCodes
      ]_vars

\* a code has been burned by a refused exchange while the session of
\* another code stays pending
C31_Witness ==
    /\ req.op = "token"
    /\ IsJsonError(res, 400, "invalid_grant")
    /\ req.code \in burned
    /\ req.code \in generated
    /\ \E c \in DOMAIN authorizationCodes : c # req.code

-----------------------------------------------------------------------------
(* C32 *)

\* the step is a handler run of operation op answered 500 server_error
FaultIn(op) ==
    /\ req'.op = "fault"
    /\ req'.request.op = op
    /\ IsJsonError(res', 500, "server_error")

\* C32 as stated: a 500 server_error leaves the stores as they were.  After
\* a fault in /authorize no session remains stored for the request, and
\* after a fault in /token the presented code is not consumed unless an
\* access token has been issued.
C32_FaultLeavesStores ==
    [][ /\ FaultIn("authorize") => authorizationCodes' = authorizationCodes
        /\ FaultIn("token")
           => ( ( /\ req'.request.code \in DOMAIN authorizationCodes
                  /\ req'.request.code \notin DOMAIN authorizationCodes' )
                => accessTokens' # accessTokens )
      ]_vars

\* C32, amended: a 500 server_error undoes nothing; what the handler did
\* before the fault stays.  A fault in /authorize leaves the token store
\* unchanged and the session store either unchanged or with the one session
\* of the request added under a new code, which it is when the fault follows
\* the storing of the session.  A fault in /token leaves every session but
\* the one of the presented code unchanged and adds at most one token; the
\* code is consumed when the fault follows its deletion, whether or not a
\* token has been stored, and a token is stored only with the code consumed.
\* A fault before the first change leaves both stores unchanged.
C32_FaultKeepsPartialEffect ==
    [][ /\ FaultIn("authorize")
           => /\ accessTokens' = accessTokens
              /\ IF req'.point = "after set"
                 THEN \E c \in DOMAIN authorizationCodes' \ DOMAIN authorizationCodes :
                         /\ Without(authorizationCodes', c) = authorizationCodes
                         /\ authorizationCodes'[c].clientId = req'.request.client_id
                         /\ authorizationCodes'[c].createdAt = now
                 ELSE authorizationCodes' = authorizationCodes
        /\ FaultIn("token")
           => LET code == req'.request.code IN
              /\ authorizationCodes' \in
                    {authorizationCodes, Without(authorizationCodes, code)}
              /\ req'.point = "before delete" => UNCHANGED stores
              /\ req'.point \in {"after burn", "after delete"}
                    => /\ code \in DOMAIN authorizationCodes
                       /\ code \notin DOMAIN authorizationCodes'
                       /\ accessTokens' = accessTokens
              /\ req'.point = "after set"
                    => /\ code \in DOMAIN authorizationCodes
                       /\ code \notin DOMAIN authorizationCodes'
                       /\ \E t \in DOMAIN accessTokens' \ DOMAIN accessTokens :
                             Without(accessTokens', t) = accessTokens
      ]_vars

\* an exchange that passed every check has been interrupted between the
\* deletion of its code and the storing of a token: the code is gone and no
\* token exists
C32_Witness ==
    /\ req.op = "fault"
    /\ req.request.op = "token"
    /\ req.point = "after delete"
    /\ IsJsonError(res, 500, "server_error")
    /\ req.request.code \in generated
    /\ req.request.code \notin DOMAIN authorizationCodes
    /\ accessTokens = <<>>

-----------------------------------------------------------------------------
(* The sweep timer firing every SweepIntervalMs *)

\* the clock is observed twice per sweep interval
ResidencyStep == SweepIntervalMs \div 2

\* clients send /authorize and /token requests during the first sweep
\* interval, and none afterwards
RequestWindow == SweepIntervalMs

\* the clock is followed until two sweeps after the last token expires
Horizon == RequestWindow + ExpiresIn * 1000 + 2 * SweepIntervalMs

\* the first observation instant after now
NextInstant == (now \div ResidencyStep + 1) * ResidencyStep

\* the timer is due at instant t: setInterval counts from the instant the
\* module is loaded
SweepDue(t) == t > 0 /\ t % SweepIntervalMs = 0

\* the session store after the timer callback, run at instant t, with a
\* lifetime of one hour for sessions as for tokens
SweptSessionsHourly(sessions, t) ==
    [c \in {x \in DOMAIN sessions : ~(t - sessions[x].createdAt > ExpiresIn * 1000)}
        |-> sessions[c]]

\* the session store after the timer callback, run at instant t
SweptSessionsAt(sessions, t) == SweptSessions(sessions, t)

\* time passes to the next instant, at which the timer is not due
AdvanceClock ==
    /\ NextInstant <= Horizon
    /\ ~SweepDue(NextInstant)
    /\ now' = NextInstant
    /\ req' = [op |-> "tick"]
    /\ res' = NoResponse
    /\ logged' = <<>>
    /\ UNCHANGED <<stores, history>>

\* time passes to the next instant, at which the timer is due: the callback
\* runs at that instant
TimerFires ==
    /\ NextInstant <= Horizon
    /\ SweepDue(NextInstant)
    /\ now' = NextInstant
    /\ authorizationCodes' = SweptSessionsAt(authorizationCodes, NextInstant)
    /\ accessTokens' = SweptTokens(accessTokens, NextInstant)
    /\ req' = [op |-> "sweep"]
    /\ res' = NoResponse
    /\ logged' = <<>>
    /\ UNCHANGED history

\* requests of the residency specification
ResidencyAuthorizeRequests ==
    { AuthorizeQuery("abc", "https://claude.ai/cb", "code", Sha256Base64Url("V1"),
                     "S256", Undefined, Undefined, Undefined) }
ResidencyTokenRequests ==
    { TokenBody("authorization_code", c, v, "abc", Undefined, Undefined) :
        c \in GenerateRandomString(CodeLength), v \in Verifiers }
ResidencyBearerRequests ==
    { [op |-> "bearer", authorization |-> "Bearer " \o t] :
        t \in GenerateRandomString(TokenLength) }

\* The residency specification: clients authorize and exchange codes during
\* the first sweep interval and may present tokens at any time; time passes,
\* and the timer fires at every multiple of SweepIntervalMs.
NextResidency ==
    \/ now <= RequestWindow /\ \E q \in ResidencyAuthorizeRequests : handleAuthorize(q)
    \/ now <= RequestWindow /\ \E q \in ResidencyTokenRequests : handleToken(q)
    \/ \E q \in ResidencyBearerRequests : validateBearerToken(q)
    \/ AdvanceClock
    \/ TimerFires

SpecResidency ==
    Init /\ [][NextResidency]_vars /\ WF_vars(AdvanceClock) /\ WF_vars(TimerFires)

-----------------------------------------------------------------------------
(* C33 *)

\* no session is older than its lifetime plus one sweep interval, and no
\* token is past its expiry by more than one sweep interval
ResidencyBounded ==
    /\ \A c \in DOMAIN authorizationCodes :
          now - authorizationCodes[c].createdAt <= SessionTtlMs + SweepIntervalMs
    /\ \A t \in DOMAIN accessTokens :
          now - accessTokens[t].expiresAt <= SweepIntervalMs

\* C33: bounded residency.  With the sweep timer firing every 60 seconds, no
\* session stays in the session store longer than 11 minutes after its
\* createdAt and no access token stays in the token store longer than 60
\* seconds after its expiresAt; every session and every token is therefore
\* eventually removed, also when its client never returns.
C33_BoundedResidency ==
    /\ []ResidencyBounded
    /\ \A c \in GenerateRandomString(CodeLength) :
          (c \in DOMAIN authorizationCodes) ~> (c \notin DOMAIN authorizationCodes)
    /\ \A t \in GenerateRandomString(TokenLength) :
          (t \in DOMAIN accessTokens) ~> (t \notin DOMAIN accessTokens)

\* a session nobody exchanged is still in the store after its ten minutes,
\* the timer not having fired since
C33_Witness ==
    /\ \E c \in DOMAIN authorizationCodes :
          now - authorizationCodes[c].createdAt > SessionTtlMs
    /\ req.op = "tick"

-----------------------------------------------------------------------------
(* The authToken parameter of the handler factories *)

\* values of the configured AUTH_TOKEN
AuthTokenValues == {Undefined, "", "secret-1", "secret-2"}

\* a handler serving only when an AUTH_TOKEN is configured
handleAuthorizeGated(authToken, q) ==
    IF Falsy(authToken)
    THEN /\ req' = q
         /\ res' = ServerError
         /\ logged' = <<>>
         /\ UNCHANGED <<now, stores, history>>
    ELSE handleAuthorize(q)

\* the handler handleAuthorize(baseUrl, authToken) returns, on query q
handleAuthorizeWith(authToken, q) == handleAuthorize(q)

\* the handler handleToken(authToken) returns, on body q
handleTokenWith(authToken, q) == handleToken(q)

\* The AUTH_TOKEN specification: the handlers are built with any AUTH_TOKEN
\* and serve the requests of the lifecycle specification.
NextAuthToken ==
    \/ \E authToken \in AuthTokenValues, q \in AuthorizeRequests :
          handleAuthorizeWith(authToken, q)
    \/ \E authToken \in AuthTokenValues, q \in TokenRequests :
          handleTokenWith(authToken, q)

SpecAuthToken == Init /\ [][NextAuthToken]_vars

-----------------------------------------------------------------------------
(* C34 *)

====
